---- MODULE Spec2Model ----
(***************************************************************************)
(* A model of the distributed orchestration layer of GraphStorm:           *)
(*   - GSgnnEdgePredictionTrainer.fit   (trainer/ep_trainer.py)            *)
(*   - dist_inference                   (model/gnn_encoder_base.py)        *)
(*   - alltoallv_cpu / alltoallv_nccl   (data/utils.py)                    *)
(*   - top-k checkpoint retention       (GSgnnTrainer.save_topk_models)    *)
(* Each subsystem has its own specification over its own variables; the    *)
(* variables of the other subsystems stay at their idle values.            *)
(***************************************************************************)
EXTENDS Integers, Sequences, FiniteSets, TLC

(***************************************************************************)
(* Bounds of the model.                                                    *)
(***************************************************************************)
NRanks == 2
MaxEpochs == 2
MaxBatches == 2
MaxSaveIters == 1
MaxScore == 1
NLayers == 2
MaxNodes == 2
MaxBatchSize == 2
MaxDim == 2
MaxK == 2
MaxSaves == 4
MaxTopScore == 2
MaxLongBatches == 21
MaxReportFrequency == 1
MaxLineLen == 1
MaxLines == 2
MaxMapId == 1
MaxParam == 1
MaxCkptEpochs == 3
MaxCkptIters == 1
MaxTensor == 2
MaxKey == 2
MaxIdCalls == 4
MaxEdges == 3
MaxEtypes == 2
PctDenominator == 4
MaxProcs == 2
MaxFiles == 3
MaxConfs == 2

Ranks == 0 .. (NRanks - 1)

\* Python's None, for the optional integers of fit (save_model_per_iters,
\* val_score, the iteration of an epoch-end save).
NoneVal == -1

Scores == 0 .. MaxScore

(***************************************************************************)
(* State of GSgnnEdgePredictionTrainer.fit, one copy per rank.             *)
(***************************************************************************)
VARIABLES
    args,           \* the arguments of fit and the trainer's evaluator
    pc,             \* pc[r]: where rank r is in fit
    epoch,          \* epoch[r]: loop variable of `for epoch in range(n_epochs)`
    i,              \* i[r]: loop variable of `enumerate(train_loader)`
    total_steps,    \* total_steps[r]
    early_stop,     \* early_stop[r]
    val_score,      \* val_score[r], NoneVal when no evaluation ran
    arrived,        \* arrived[r]: number of th.distributed.barrier() calls made
    trained,        \* trained[r]: number of optimizer steps taken (history)
    stop_seen,      \* stop_seen[r]: do_early_stop has returned True (history)
    epoch_evals,    \* epoch_evals[r]: number of epoch-end evaluation checks passed
    epoch_saves,    \* epoch_saves[r]: number of epoch-end save_topk_models calls
    mid_saves,      \* mid_saves[r]: number of mid-epoch save_topk_models calls
    last_save,      \* last_save[r]: arguments of the latest save_topk_models call
    ops,            \* ops[r]: model and optimizer operations of the latest step, in order
    calls,          \* calls[r]: evaluator and prediction calls of the latest check point
    do_eval_calls,  \* do_eval_calls[r]: number of do_eval calls, by epoch_end (history)
    prints,         \* prints[r]: the progress lines printed: how many, the latest, the one before
    logged,         \* logged[r]: the log_metric("Train loss") calls: how many, the latest step
    answers         \* what the collaborators have answered so far, when all ranks get the same answers

fitVars == <<args, pc, epoch, i, total_steps, early_stop, val_score, arrived,
             trained, stop_seen, epoch_evals, epoch_saves, mid_saves, last_save,
             ops, calls, do_eval_calls, prints, logged, answers>>


(***************************************************************************)
(* State of dist_inference: the graph and encoder it is called with, the   *)
(* DistTensors of the kvstore (shared by all ranks), one control state per *)
(* rank.                                                                   *)
(***************************************************************************)
VARIABLES
    inf,            \* the arguments: g, gnn_encoder, batch_size
    dist_tensors,   \* dist_tensors[k]: the DistTensors named 'h-k'
    inf_pc,         \* inf_pc[r]: where rank r is in dist_inference
    layer_i,        \* layer_i[r]: loop variable i of `enumerate(gnn_encoder.layers)`
    infer_nodes,    \* infer_nodes[r]: seed nodes the dataloader has not yet yielded
    iter_l,         \* iter_l[r]: number of mini-batches processed in this layer
    y_shape,        \* y_shape[r]: shapes of the tensors rank r allocated, per layer
    inf_arrived,    \* inf_arrived[r]: number of th.distributed.barrier() calls made
    ret,            \* ret[r]: the returned dict, as rank r reads it on return
    task_tracker,   \* the argument task_tracker: TRUE when a tracker is passed, FALSE when None
    tracker,        \* tracker[r]: the fields of the task tracker of rank r
    keep_alive_calls, \* keep_alive_calls[r]: the keep_alive calls made: how many, the latest step
    last_batch      \* last_batch[r]: the node types of h in the latest mini-batch (history)

infVars == <<inf, dist_tensors, inf_pc, layer_i, infer_nodes, iter_l, y_shape,
             inf_arrived, ret, task_tracker, tracker, keep_alive_calls, last_batch>>

(***************************************************************************)
(* State of all-to-all-v (alltoallv_cpu, alltoallv_nccl), one call on      *)
(* every rank of the world.                                                *)
(***************************************************************************)
VARIABLES
    a2a,            \* the call: backend, the input lists, the receive buffers
    a2a_pc,         \* a2a_pc[r]: where rank r is in the function
    a2a_i,          \* a2a_i[r]: loop variable i of the current loop
    output_tensor_list, \* output_tensor_list[r][i]
    senders,        \* senders[r]: the destinations of the isend handles collected
    recvs,          \* recvs[r]: the sources of the dist.recv calls completed (history)
    in_flight,      \* in_flight[<<src, dst>>]: tensors sent and not yet received
    a2a_arrived     \* a2a_arrived[r]: number of th.distributed.barrier() calls made

a2aVars == <<a2a, a2a_pc, a2a_i, output_tensor_list, senders, recvs, in_flight,
             a2a_arrived>>

(***************************************************************************)
(* State of alltoall_cpu and all_reduce_sum, one call on every rank of the *)
(* world.                                                                  *)
(***************************************************************************)
VARIABLES
    coll,           \* the call: the function and its arguments on every rank
    coll_pc,        \* coll_pc[r]: where rank r is in the function
    scatter_i,      \* scatter_i[r]: loop variable i of alltoall_cpu
    scatter_out,    \* scatter_out[r][i]: output_tensor_list[i] of alltoall_cpu on rank r
    scattered,      \* scattered[<<src, dst>>]: tensors scattered and not yet received
    scatter_calls,  \* scatter_calls[r]: the dist.scatter calls made, in order (history)
    tensor,         \* tensor[r]: the tensor of all_reduce_sum
    reduce_in       \* the tensors contributed to the all-reduce, as <<rank, tensor>>

collVars == <<coll, coll_pc, scatter_i, scatter_out, scattered, scatter_calls,
              tensor, reduce_in>>

(***************************************************************************)
(* State of the top-k checkpoint retention of the trainer.                 *)
(***************************************************************************)
VARIABLES
    topk_model_to_save, \* K, the trainer's topk_model_to_save
    retained,           \* the checkpoints kept on disk
    seen                \* every checkpoint save so far, in order (history)

topkVars == <<topk_model_to_save, retained, seen>>

(***************************************************************************)
(* State of the raw-text and ID-map persistence (save_raw_text,            *)
(* load_raw_text, save_maps, load_maps): one directory `path` and the      *)
(* calls a process makes on it.                                            *)
(***************************************************************************)
VARIABLES
    io_args,        \* the data of the calls: dname, raw_text, map_data
    files,          \* files[name]: the content of the file `name` of the directory
    io_saved,       \* which of the two save functions have been called (history)
    io_result       \* the latest call: the function, how it ended, what it returned

ioVars == <<io_args, files, io_saved, io_result>>

(***************************************************************************)
(* State of the checkpoint directories of one training run.                *)
(***************************************************************************)
VARIABLES
    model_state,    \* the parameters of the model in memory
    ckpt_at,        \* where the run is: epoch, and iteration within the epoch
    ckpt_dirs,      \* ckpt_dirs[name]: the model state in the checkpoint directory `name`
    ckpt_saved,     \* ckpt_saved[<<epoch, iteration>>]: the parameters when that save was made (history)
    reloaded        \* the latest reload: the checkpoint asked for, the parameters obtained

ckptVars == <<model_state, ckpt_at, ckpt_dirs, ckpt_saved, reloaded>>

(***************************************************************************)
(* State of a stream of get_id calls on one dict (data/utils.py).          *)
(***************************************************************************)
VARIABLES
    nid_dict,       \* the dict: raw node id -> integer id
    id_calls        \* the calls made so far: key, returned nid, returned is_new (history)

idVars == <<nid_dict, id_calls>>

(***************************************************************************)
(* State of one call of generated_train_valid_test_splits (data/utils.py). *)
(***************************************************************************)
VARIABLES
    split_args,     \* the arguments: the edge counts of g per edge type, the percentages, the flag
    split_out,      \* split_out[k]: the edge ids and graph masks of the k-th edge type
    split_pc        \* "loop" while the edge types are processed, then "done"

splitVars == <<split_args, split_out, split_pc>>

(***************************************************************************)
(* State of process_node_data / process_edge_data (tools/preprocess.py).   *)
(***************************************************************************)
VARIABLES
    proc_args,      \* num_processes and the number of input files of every process_conf
    proc_pc,        \* where the parent process is
    conf_i,         \* the index of the current process_conf
    file_i,         \* the index i of the current in_file
    proc_q,         \* the list q of worker processes
    proc_j,         \* the position of wait_all in q
    workers         \* workers[p]: "running", "exited" or "joined", for every worker started

procVars == <<proc_args, proc_pc, conf_i, file_i, proc_q, proc_j, workers>>

toolVars == <<idVars, splitVars, procVars>>

notFit == <<infVars, a2aVars, collVars, topkVars, ioVars, ckptVars, toolVars>>
notInf == <<fitVars, a2aVars, collVars, topkVars, ioVars, ckptVars, toolVars>>
notA2A == <<fitVars, infVars, collVars, topkVars, ioVars, ckptVars, toolVars>>
notColl == <<fitVars, infVars, a2aVars, topkVars, ioVars, ckptVars, toolVars>>
notTopK == <<fitVars, infVars, a2aVars, collVars, ioVars, ckptVars, toolVars>>
notIO == <<fitVars, infVars, a2aVars, collVars, topkVars, ckptVars, toolVars>>
notCkpt == <<fitVars, infVars, a2aVars, collVars, topkVars, ioVars, toolVars>>
coreVars == <<fitVars, infVars, a2aVars, collVars, topkVars, ioVars, ckptVars>>
notId == <<coreVars, splitVars, procVars>>
notSplit == <<coreVars, idVars, procVars>>
notProc == <<coreVars, idVars, splitVars>>
vars == <<fitVars, infVars, a2aVars, collVars, topkVars, ioVars, ckptVars, toolVars>>

NoSave == [epoch |-> NoneVal, iter |-> NoneVal, score |-> NoneVal]

\* Nothing has been answered yet: the number of edge types of the batch graphs
\* is not known, no check point has been passed.
NoAnswers == [etypes |-> "unknown", checks |-> <<>>]

\* At the check point `key`, `outcome` is what the ranks before this one got
\* there, if the ranks get the same answers and a rank has been there.
Agreed(key, outcome) ==
    (args.agree /\ key \in DOMAIN answers.checks) => answers.checks[key] = outcome

\* The answers after `outcome` was given at the check point `key`.
Answered(key, outcome) ==
    IF args.agree
    THEN [answers EXCEPT !.checks =
            [k \in DOMAIN answers.checks \cup {key} |->
               IF k = key THEN outcome ELSE answers.checks[k]]]
    ELSE answers

\* No progress line has been printed yet.
NoPrint == [n |-> 0, epoch |-> NoneVal, i |-> NoneVal, step |-> NoneVal,
            prev_epoch |-> NoneVal, prev_step |-> NoneVal]

\* line 107: `i % 20`, the period of the progress lines.
PrintEvery == 20

\* The arguments fit can be called with.  Every rank runs the same script with
\* the same configuration; the loaders' lengths are per rank.
FitArgs ==
    [n_epochs : 0 .. MaxEpochs,
     loader_len : [Ranks -> 0 .. MaxBatches],
     save_model_per_iters : {NoneVal} \cup (0 .. MaxSaveIters),
     has_evaluator : BOOLEAN,
     has_val_loader : BOOLEAN,
     mini_batch_infer : BOOLEAN,
     agree : {FALSE}]

\* Arguments with train loaders long enough for the periodic progress lines:
\* no evaluator, no mid-epoch saves, loaders of one or of MaxLongBatches
\* batches.
FitArgsLong ==
    [n_epochs : 1 .. MaxEpochs,
     loader_len : [Ranks -> {1, MaxLongBatches}],
     save_model_per_iters : {0},
     has_evaluator : {FALSE},
     has_val_loader : {FALSE},
     mini_batch_infer : {TRUE},
     agree : {FALSE}]

\* Calls in which every rank gets the same data and the same answers: train
\* loaders of one length, batch graphs of one schema, evaluators that return
\* the same do_eval, score and do_early_stop at the same check point.
FitArgsAgree ==
    {a \in [n_epochs : 0 .. MaxEpochs,
            loader_len : [Ranks -> 0 .. MaxBatches],
            save_model_per_iters : {NoneVal} \cup (0 .. MaxSaveIters),
            has_evaluator : BOOLEAN,
            has_val_loader : BOOLEAN,
            mini_batch_infer : {TRUE},
            agree : {TRUE}] :
       \A r \in Ranks : a.loader_len[r] = a.loader_len[0]}

\* lines 63-69: the local variables of fit at its start.
FitStart ==
    /\ pc = [r \in Ranks |-> "check"]
    /\ epoch = [r \in Ranks |-> 0]
    /\ i = [r \in Ranks |-> 0]
    /\ total_steps = [r \in Ranks |-> 0]
    /\ early_stop = [r \in Ranks |-> FALSE]
    /\ val_score = [r \in Ranks |-> NoneVal]
    /\ arrived = [r \in Ranks |-> 0]
    /\ trained = [r \in Ranks |-> 0]
    /\ stop_seen = [r \in Ranks |-> FALSE]
    /\ epoch_evals = [r \in Ranks |-> 0]
    /\ epoch_saves = [r \in Ranks |-> 0]
    /\ mid_saves = [r \in Ranks |-> 0]
    /\ last_save = [r \in Ranks |-> NoSave]
    /\ ops = [r \in Ranks |-> <<>>]
    /\ calls = [r \in Ranks |-> <<>>]
    /\ do_eval_calls = [r \in Ranks |-> [mid |-> 0, end |-> 0]]
    /\ prints = [r \in Ranks |-> NoPrint]
    /\ logged = [r \in Ranks |-> [n |-> 0, step |-> 0]]
    /\ answers = NoAnswers

FitInit == args \in FitArgs /\ FitStart

FitInitAgree == args \in FitArgsAgree /\ FitStart

FitInitLong == args \in FitArgsLong /\ FitStart

\* Mutant of BarrierOpen: the barrier does not wait for the other ranks.
BarrierOpenMut(r) == TRUE

\* th.distributed.barrier(): a rank leaves its n-th barrier call once every
\* rank has made its n-th barrier call.
BarrierOpen(r) == \A q \in Ranks : arrived[q] >= arrived[r]

\* Mutant of CheckConfig: the configuration is not checked.
CheckConfigMut(r) ==
    /\ pc[r] = "check"
    /\ pc' = [pc EXCEPT ![r] = "epoch_head"]
    /\ UNCHANGED notFit
    /\ UNCHANGED <<args, epoch, i, total_steps, early_stop, val_score, arrived,
                   trained, stop_seen, epoch_evals, epoch_saves, mid_saves, last_save,
                   ops, calls, do_eval_calls, prints, logged, answers>>

\* lines 53-56: the configuration check.
CheckConfig(r) ==
    /\ pc[r] = "check"
    /\ IF args.has_evaluator /\ ~args.has_val_loader
       THEN pc' = [pc EXCEPT ![r] = "assert_failed"]
       ELSE pc' = [pc EXCEPT ![r] = "epoch_head"]
    /\ UNCHANGED notFit
    /\ UNCHANGED <<args, epoch, i, total_steps, early_stop, val_score, arrived,
                   trained, stop_seen, epoch_evals, epoch_saves, mid_saves, last_save,
                   ops, calls, do_eval_calls, prints, logged, answers>>

\* lines 72-74: `for epoch in range(n_epochs)` yields the next epoch.
EpochStart(r) ==
    /\ pc[r] = "epoch_head"
    /\ epoch[r] < args.n_epochs
    /\ pc' = [pc EXCEPT ![r] = "batch"]
    /\ i' = [i EXCEPT ![r] = 0]
    /\ UNCHANGED notFit
    /\ UNCHANGED <<args, epoch, total_steps, early_stop, val_score, arrived,
                   trained, stop_seen, epoch_evals, epoch_saves, mid_saves, last_save,
                   ops, calls, do_eval_calls, prints, logged, answers>>

\* line 72: range(n_epochs) is exhausted.
EpochsExhausted(r) ==
    /\ pc[r] = "epoch_head"
    /\ epoch[r] >= args.n_epochs
    /\ pc' = [pc EXCEPT ![r] = "finish"]
    /\ UNCHANGED notFit
    /\ UNCHANGED <<args, epoch, i, total_steps, early_stop, val_score, arrived,
                   trained, stop_seen, epoch_evals, epoch_saves, mid_saves, last_save,
                   ops, calls, do_eval_calls, prints, logged, answers>>

\* The number of occurrences of op in the sequence s.
Count(op, s) == Cardinality({n \in 1 .. Len(s) : s[n] = op})

\* Mutant of StepOps: the edge types are checked after the forward pass.
StepOpsAssertLate(one_etype) ==
    IF one_etype THEN <<"forward", "zero_grad", "backward", "step">>
    ELSE <<"forward">>

\* Mutant of StepOps: the gradients are zeroed between backward and step.
StepOpsZeroLate(one_etype) ==
    IF one_etype THEN <<"forward", "backward", "zero_grad", "step">>
    ELSE <<>>

\* lines 85-101: the model and optimizer operations of one step, in the order
\* of the code: `assert len(batch_graph.etypes) == 1` (line 85), then
\* model(...) (96), optimizer.zero_grad() (99), loss.backward() (100),
\* optimizer.step() (101).
StepOps(one_etype) ==
    IF one_etype THEN <<"forward", "zero_grad", "backward", "step">>
    ELSE <<>>

\* Mutant of LoggedStep: the metric is logged with the batch index.
LoggedStepBatch(steps, i_) == i_

\* line 105: log_metric("Train loss", loss.item(), total_steps): the step the
\* train loss is logged with.
LoggedStep(steps, i_) == steps

\* Mutant of PrintsProgress: every rank prints.
PrintsProgressAnyRank(r, i_) == i_ % PrintEvery = 0

\* line 107: `if i % 20 == 0 and self.rank == 0`.
PrintsProgress(r, i_) == i_ % PrintEvery = 0 /\ r = 0

\* lines 75-112: one mini-batch is fetched and trained on (forward, backward,
\* optimizer step, metric logging, progress line).  A batch graph without
\* exactly one edge type fails the assertion of line 85 before the forward
\* pass.
TrainStep(r) ==
    /\ pc[r] = "batch"
    /\ i[r] < args.loader_len[r]
    /\ total_steps' = [total_steps EXCEPT ![r] = @ + 1]
    /\ \E one_etype \in BOOLEAN :
         /\ (args.agree /\ answers.etypes # "unknown") =>
               (one_etype <=> answers.etypes = "one")
         /\ answers' = IF args.agree
                       THEN [answers EXCEPT !.etypes = IF one_etype THEN "one" ELSE "many"]
                       ELSE answers
         /\ ops' = [ops EXCEPT ![r] = StepOps(one_etype)]
         /\ trained' = [trained EXCEPT ![r] = @ + Count("step", StepOps(one_etype))]
         /\ pc' = [pc EXCEPT ![r] = IF one_etype THEN "mid_eval" ELSE "assert_failed"]
         /\ IF one_etype
            THEN /\ logged' = [logged EXCEPT ![r] =
                       [n |-> @.n + 1, step |-> LoggedStep(total_steps'[r], i[r])]]
                 /\ prints' = [prints EXCEPT ![r] =
                       IF PrintsProgress(r, i[r])
                       THEN [n |-> @.n + 1, epoch |-> epoch[r], i |-> i[r],
                             step |-> total_steps'[r],
                             prev_epoch |-> @.epoch, prev_step |-> @.step]
                       ELSE @]
            ELSE UNCHANGED <<prints, logged>>
    /\ UNCHANGED notFit
    /\ UNCHANGED <<args, epoch, i, early_stop, val_score, arrived,
                   stop_seen, epoch_evals, epoch_saves, mid_saves, last_save,
                   calls, do_eval_calls>>

\* line 75: the train loader is exhausted, the step loop ends.
LoaderExhausted(r) ==
    /\ pc[r] = "batch"
    /\ i[r] >= args.loader_len[r]
    /\ pc' = [pc EXCEPT ![r] = "barrier1"]
    /\ UNCHANGED notFit
    /\ UNCHANGED <<args, epoch, i, total_steps, early_stop, val_score, arrived,
                   trained, stop_seen, epoch_evals, epoch_saves, mid_saves, last_save,
                   ops, calls, do_eval_calls, prints, logged, answers>>

\* A call of the evaluator or of a prediction function, with its integer
\* argument (total_steps or the validation score) and its epoch_end keyword.
Call(fn, arg, epoch_end) == [fn |-> fn, arg |-> arg, epoch_end |-> epoch_end]

\* Mutant of EvalCalls: the test predictions are not computed.
EvalCallsNoTest(steps) ==
    <<Call("predict(val_loader)", NoneVal, FALSE),
      Call("evaluate", steps, FALSE)>>

\* lines 192-208: the calls of eval(): with mini_batch_infer the validation and
\* the test predictions by edge_mini_batch_gnn_predict, else one
\* do_full_graph_inference and edge_mini_batch_predict on both loaders; then
\* evaluator.evaluate on both predictions.
EvalCalls(steps) ==
    (IF args.mini_batch_infer
     THEN <<>>
     ELSE <<Call("do_full_graph_inference", NoneVal, FALSE)>>)
    \o <<Call("predict(val_loader)", NoneVal, FALSE),
         Call("predict(test_loader)", NoneVal, FALSE),
         Call("evaluate", steps, FALSE)>>

\* Mutant of CheckPointCalls: do_early_stop is consulted at every check point
\* of a trainer with an evaluator, with val_score as it is (None without an
\* evaluation).
CheckPointCallsStopAlways(steps, epoch_end, do_eval, score) ==
    IF ~args.has_evaluator THEN <<>>
    ELSE <<Call("do_eval", steps, epoch_end)>>
         \o (IF do_eval THEN EvalCalls(steps) ELSE <<>>)
         \o <<Call("do_early_stop", IF do_eval THEN score ELSE NoneVal, FALSE)>>

\* lines 115-120 and 142-146: the calls of one check point.  `and` evaluates
\* do_eval only when an evaluator is set; eval() and do_early_stop run only
\* when do_eval returned True.
CheckPointCalls(steps, epoch_end, do_eval, score) ==
    IF ~args.has_evaluator THEN <<>>
    ELSE <<Call("do_eval", steps, epoch_end)>>
         \o (IF do_eval
             THEN EvalCalls(steps) \o <<Call("do_early_stop", score, FALSE)>>
             ELSE <<>>)

\* Mutant of NewEarlyStop: the flag is assigned the answer of do_early_stop.
NewEarlyStopAssign(old, do_early_stop) == do_early_stop

\* lines 120-121 and 146-147: `if do_early_stop(val_score): early_stop = True`.
NewEarlyStop(old, do_early_stop) == old \/ do_early_stop

\* Mutant of NewValScore: val_score is not reset where no evaluation runs.
NewValScoreKept(old, do_eval, score) == IF do_eval THEN score ELSE old

\* lines 114-118 and 141-144: val_score = None, then the score of eval when
\* do_eval returned True.
NewValScore(old, do_eval, score) == IF do_eval THEN score ELSE NoneVal

\* lines 114-121 and 141-147: val_score = None; when an evaluator is set and
\* do_eval returns True, eval returns a score and do_early_stop is consulted.
\* The evaluator is a collaborator: its answers are free.
Evaluate(r, next_pc, epoch_end) ==
    \E do_eval \in BOOLEAN, score \in Scores, do_early_stop \in BOOLEAN :
       /\ (~args.has_evaluator) => (~do_eval)
       /\ (~do_eval) => (score = 0 /\ ~do_early_stop)
       /\ calls' = [calls EXCEPT ![r] =
             CheckPointCalls(total_steps[r], epoch_end, do_eval, score)]
       /\ do_eval_calls' = [do_eval_calls EXCEPT ![r] =
             [mid |-> @.mid + Count(Call("do_eval", total_steps[r], FALSE), calls'[r]),
              end |-> @.end + Count(Call("do_eval", total_steps[r], TRUE), calls'[r])]]
       /\ LET key == <<epoch[r], IF epoch_end THEN NoneVal ELSE i[r]>>
              outcome == [do_eval |-> do_eval, score |-> score,
                          do_early_stop |-> do_early_stop]
          IN /\ Agreed(key, outcome)
             /\ answers' = Answered(key, outcome)
       /\ val_score' = [val_score EXCEPT ![r] = NewValScore(@, do_eval, score)]
       /\ early_stop' = [early_stop EXCEPT ![r] = NewEarlyStop(@, do_early_stop)]
       /\ stop_seen' = [stop_seen EXCEPT ![r] = @ \/ do_early_stop]
       /\ pc' = [pc EXCEPT ![r] = next_pc]

\* lines 114-121: the mid-epoch evaluation check.
MidEval(r) ==
    /\ pc[r] = "mid_eval"
    /\ Evaluate(r, "mid_save", FALSE)
    /\ UNCHANGED notFit
    /\ UNCHANGED <<args, epoch, i, total_steps, arrived,
                   trained, epoch_evals, epoch_saves, mid_saves, last_save,
                   ops, prints, logged>>

\* lines 123-127: the mid-epoch save.  `save_model_per_iters > 0` is evaluated
\* first; with save_model_per_iters = None it raises TypeError.
MidSave(r) ==
    /\ pc[r] = "mid_save"
    /\ IF args.save_model_per_iters = NoneVal
       THEN /\ pc' = [pc EXCEPT ![r] = "type_error"]
            /\ UNCHANGED <<mid_saves, last_save>>
       ELSE /\ pc' = [pc EXCEPT ![r] = "mid_break"]
            /\ IF /\ args.save_model_per_iters > 0
                  /\ i[r] % args.save_model_per_iters = 0
                  /\ i[r] # 0
               THEN /\ mid_saves' = [mid_saves EXCEPT ![r] = @ + 1]
                    /\ last_save' = [last_save EXCEPT ![r] =
                          [epoch |-> epoch[r], iter |-> i[r], score |-> val_score[r]]]
               ELSE UNCHANGED <<mid_saves, last_save>>
    /\ UNCHANGED notFit
    /\ UNCHANGED <<args, epoch, i, total_steps, early_stop, val_score, arrived,
                   trained, stop_seen, epoch_evals, epoch_saves,
                   ops, calls, do_eval_calls, prints, logged, answers>>

\* Mutant of BreakStepLoop: the early-stop flag does not end the step loop.
BreakStepLoopMut(r) == FALSE

\* The `break` of line 131 is taken.
BreakStepLoop(r) == early_stop[r] = TRUE

\* lines 129-131: leave the step loop on early stop, else go to the next batch.
MidBreak(r) ==
    /\ pc[r] = "mid_break"
    /\ IF BreakStepLoop(r)
       THEN /\ pc' = [pc EXCEPT ![r] = "barrier1"]
            /\ i' = i
       ELSE /\ pc' = [pc EXCEPT ![r] = "batch"]
            /\ i' = [i EXCEPT ![r] = @ + 1]
    /\ UNCHANGED notFit
    /\ UNCHANGED <<args, epoch, total_steps, early_stop, val_score, arrived,
                   trained, stop_seen, epoch_evals, epoch_saves, mid_saves, last_save,
                   ops, calls, do_eval_calls, prints, logged, answers>>

\* lines 135 and 155: the rank calls th.distributed.barrier().
EnterBarrier(r) ==
    /\ pc[r] \in {"barrier1", "barrier2"}
    /\ arrived' = [arrived EXCEPT ![r] = @ + 1]
    /\ pc' = [pc EXCEPT ![r] = IF pc[r] = "barrier1" THEN "wait1" ELSE "wait2"]
    /\ UNCHANGED notFit
    /\ UNCHANGED <<args, epoch, i, total_steps, early_stop, val_score,
                   trained, stop_seen, epoch_evals, epoch_saves, mid_saves, last_save,
                   ops, calls, do_eval_calls, prints, logged, answers>>

\* lines 135 and 155: the barrier call returns.
LeaveBarrier(r) ==
    /\ pc[r] \in {"wait1", "wait2"}
    /\ BarrierOpen(r)
    /\ pc' = [pc EXCEPT ![r] = IF pc[r] = "wait1" THEN "epoch_eval" ELSE "epoch_break"]
    /\ UNCHANGED notFit
    /\ UNCHANGED <<args, epoch, i, total_steps, early_stop, val_score, arrived,
                   trained, stop_seen, epoch_evals, epoch_saves, mid_saves, last_save,
                   ops, calls, do_eval_calls, prints, logged, answers>>

\* lines 141-147: the epoch-end evaluation check.
EpochEval(r) ==
    /\ pc[r] = "epoch_eval"
    /\ Evaluate(r, "epoch_save", TRUE)
    /\ epoch_evals' = [epoch_evals EXCEPT ![r] = @ + 1]
    /\ UNCHANGED notFit
    /\ UNCHANGED <<args, epoch, i, total_steps, arrived,
                   trained, epoch_saves, mid_saves, last_save,
                   ops, prints, logged>>

\* Mutant of EpochSave: the epoch-end save passes the batch index as iteration.
EpochSaveWithIter(r) ==
    /\ pc[r] = "epoch_save"
    /\ epoch_saves' = [epoch_saves EXCEPT ![r] = @ + 1]
    /\ last_save' = [last_save EXCEPT ![r] =
          [epoch |-> epoch[r], iter |-> i[r], score |-> val_score[r]]]
    /\ pc' = [pc EXCEPT ![r] = "barrier2"]
    /\ UNCHANGED notFit
    /\ UNCHANGED <<args, epoch, i, total_steps, early_stop, val_score, arrived,
                   trained, stop_seen, epoch_evals, mid_saves,
                   ops, calls, do_eval_calls, prints, logged, answers>>

\* lines 149-153: the epoch-end save, with iteration None.
EpochSave(r) ==
    /\ pc[r] = "epoch_save"
    /\ epoch_saves' = [epoch_saves EXCEPT ![r] = @ + 1]
    /\ last_save' = [last_save EXCEPT ![r] =
          [epoch |-> epoch[r], iter |-> NoneVal, score |-> val_score[r]]]
    /\ pc' = [pc EXCEPT ![r] = "barrier2"]
    /\ UNCHANGED notFit
    /\ UNCHANGED <<args, epoch, i, total_steps, early_stop, val_score, arrived,
                   trained, stop_seen, epoch_evals, mid_saves,
                   ops, calls, do_eval_calls, prints, logged, answers>>

\* Mutant of BreakEpochLoop: only rank 0 leaves the epoch loop on early stop.
BreakEpochLoopRank0(r) == early_stop[r] = TRUE /\ r = 0

\* The `break` of line 159 is taken.
BreakEpochLoop(r) == early_stop[r] = TRUE

\* lines 157-159: leave the epoch loop on early stop, else go to the next epoch.
EpochBreak(r) ==
    /\ pc[r] = "epoch_break"
    /\ IF BreakEpochLoop(r)
       THEN /\ pc' = [pc EXCEPT ![r] = "finish"]
            /\ epoch' = epoch
       ELSE /\ pc' = [pc EXCEPT ![r] = "epoch_head"]
            /\ epoch' = [epoch EXCEPT ![r] = @ + 1]
    /\ UNCHANGED notFit
    /\ UNCHANGED <<args, i, total_steps, early_stop, val_score, arrived,
                   trained, stop_seen, epoch_evals, epoch_saves, mid_saves, last_save,
                   ops, calls, do_eval_calls, prints, logged, answers>>

\* lines 161-170: the final report; fit returns.
Finish(r) ==
    /\ pc[r] = "finish"
    /\ pc' = [pc EXCEPT ![r] = "done"]
    /\ UNCHANGED notFit
    /\ UNCHANGED <<args, epoch, i, total_steps, early_stop, val_score, arrived,
                   trained, stop_seen, epoch_evals, epoch_saves, mid_saves, last_save,
                   ops, calls, do_eval_calls, prints, logged, answers>>

\* The steps of the process of rank r.
FitRank(r) ==
    \/ CheckConfig(r)
    \/ EpochStart(r)
    \/ EpochsExhausted(r)
    \/ TrainStep(r)
    \/ LoaderExhausted(r)
    \/ MidEval(r)
    \/ MidSave(r)
    \/ MidBreak(r)
    \/ EnterBarrier(r)
    \/ LeaveBarrier(r)
    \/ EpochEval(r)
    \/ EpochSave(r)
    \/ EpochBreak(r)
    \/ Finish(r)

FitNext == \E r \in Ranks : FitRank(r)

(***************************************************************************)
(* dist_inference (model/gnn_encoder_base.py).                             *)
(***************************************************************************)
Min(S) == CHOOSE m \in S : \A n \in S : m <= n

\* The node types of the test graph (generate_dummy_dist_graph: n0, n1); a
\* homogeneous graph has the first one only.
GraphNTypes == {{"n0"}, {"n0", "n1"}}

\* The nodes of a graph with node types T and num_nodes[t] nodes of type t.
NodesOf(T, num_nodes) ==
    UNION {{<<t, n>> : n \in 0 .. (num_nodes[t] - 1)} : t \in T}

\* The partition policy: the node ids of one type are split in contiguous
\* ranges, one range per rank.
IsRangePartition(nodes, owner) ==
    \A a \in nodes, b \in nodes :
       (a[1] = b[1] /\ a[2] <= b[2]) => owner[a] <= owner[b]

AllNodes == NodesOf(inf.ntypes, inf.num_nodes)

NoTensor == [exists |-> FALSE, shape |-> <<>>, data |-> <<>>,
             nwrites |-> <<>>, writers |-> <<>>]
NoRet == [layer |-> NoneVal, keys |-> {}, data |-> <<>>]

\* graphstorm_tracker.py lines 16-20: the fields a tracker is constructed
\* with; log_report_frequency can be None.
GSTaskTrackerAbc(rank, log_report_frequency) ==
    [rank |-> rank, eval_metrics |-> NoneVal, report_frequency |-> log_report_frequency]

\* Mutant of keep_alive: the tracker remembers the step reported.
keep_aliveRecords(self, report_step) == [self EXCEPT !.report_frequency = report_step]

\* lines 65-73: keep_alive of the base class does nothing.  The tracker after
\* the call.
keep_alive(self, report_step) == self

\* lines 98-136: the timing hooks of the base class do nothing.
log_mean_forward_time(self, forward_time) == self
log_mean_backward_time(self, backward_time) == self
log_train_time(self, train_time) == self
log_valid_time(self, valid_time) == self

InfInit ==
    /\ \E T \in GraphNTypes :
       \E nn \in [T -> 1 .. MaxNodes] :
       \E ow \in [NodesOf(T, nn) -> Ranks] :
       \E bs \in 1 .. MaxBatchSize, hd \in 1 .. MaxDim, od \in 1 .. MaxDim :
          /\ IsRangePartition(NodesOf(T, nn), ow)
          /\ inf = [ntypes |-> T, num_nodes |-> nn, owner |-> ow,
                    h_dims |-> hd, out_dims |-> od, batch_size |-> bs,
                    n_layers |-> NLayers]
    /\ \E with_tracker \in BOOLEAN, freq \in {NoneVal} \cup (1 .. MaxReportFrequency) :
          /\ (~with_tracker) => freq = NoneVal
          /\ task_tracker = with_tracker
          /\ tracker = [r \in Ranks |-> GSTaskTrackerAbc(r, freq)]
    /\ keep_alive_calls = [r \in Ranks |-> [n |-> 0, report_step |-> NoneVal]]
    /\ last_batch = [r \in Ranks |-> [h_keys |-> {}]]
    /\ dist_tensors = [k \in 0 .. (NLayers - 1) |-> NoTensor]
    /\ inf_pc = [r \in Ranks |-> "layer_head"]
    /\ layer_i = [r \in Ranks |-> 0]
    /\ infer_nodes = [r \in Ranks |-> {}]
    /\ iter_l = [r \in Ranks |-> 0]
    /\ y_shape = [r \in Ranks |-> <<>>]
    /\ inf_arrived = [r \in Ranks |-> 0]
    /\ ret = [r \in Ranks |-> NoRet]

\* Mutant of LayerWidth: the last layer is sized like a hidden layer.
LayerWidthMut(k) == inf.h_dims

\* lines 88-89: the width of the layer's output.
LayerWidth(k) ==
    IF k < inf.n_layers - 1 THEN inf.h_dims ELSE inf.out_dims

\* lines 86-94: the shapes of y, one DistTensor per node type.
AllocShape(k) ==
    [t \in inf.ntypes |-> <<inf.num_nodes[t], LayerWidth(k)>>]

\* lines 90-94: DistTensor(...) creates the zero-filled tensor in the kvstore,
\* or attaches to the one another rank has created under the same name.
DistTensor(k) ==
    IF dist_tensors[k].exists
    THEN dist_tensors[k]
    ELSE [exists |-> TRUE, shape |-> AllocShape(k),
          data |-> [n \in AllNodes |-> 0],
          nwrites |-> [n \in AllNodes |-> 0],
          writers |-> [n \in AllNodes |-> {}]]

\* Mutant of node_split: every rank takes all the nodes of the graph.
node_splitMut(r) == AllNodes

\* lines 96-101: node_split with the all-ones mask: the nodes the partition
\* policy assigns to the rank.
node_split(r) == {n \in AllNodes : inf.owner[n] = r}

\* lines 84-107: a layer pass begins: y is allocated, the rank's seed nodes are
\* computed, the dataloader is built.
BeginLayer(r) ==
    /\ inf_pc[r] = "layer_head"
    /\ layer_i[r] < inf.n_layers
    /\ dist_tensors' = [dist_tensors EXCEPT ![layer_i[r]] = DistTensor(layer_i[r])]
    /\ y_shape' = [y_shape EXCEPT ![r] = Append(@, AllocShape(layer_i[r]))]
    /\ infer_nodes' = [infer_nodes EXCEPT ![r] = node_split(r)]
    /\ iter_l' = [iter_l EXCEPT ![r] = 0]
    /\ inf_pc' = [inf_pc EXCEPT ![r] = "loop"]
    /\ UNCHANGED notInf
    /\ UNCHANGED <<inf, layer_i, inf_arrived, ret,
                   task_tracker, tracker, keep_alive_calls, last_batch>>

\* lines 104-107: the mini-batches the dataloader may yield next: batch_size of
\* the remaining seed nodes in any order (shuffle=True), the last batch with
\* what is left (drop_last=False).
NextBatches(remaining) ==
    {B \in SUBSET remaining :
        /\ B # {}
        /\ Cardinality(B) = IF Cardinality(remaining) < inf.batch_size
                            THEN Cardinality(remaining) ELSE inf.batch_size}

\* What the sampler hands out for a node set: a dict keyed by node type, or on
\* a graph with one node type the bare ids.
SamplerOutput(nodes) ==
    IF Cardinality(inf.ntypes) = 1 THEN {n[2] : n \in nodes} ELSE nodes

\* lines 114-122: bare ids are wrapped into {g.ntypes[0]: ids}.
AsNodeDict(out) ==
    IF Cardinality(inf.ntypes) = 1
    THEN {<<t, n>> : t \in inf.ntypes, n \in out}
    ELSE out

\* line 124: x is node_feats for the first layer, then the previous layer's y.
XData(k) ==
    IF k = 0 THEN [n \in AllNodes |-> 0] ELSE dist_tensors[k - 1].data

\* lines 124-125: the layer applied to the gathered input rows.  An embedding
\* is abstracted to the number of layers it has gone through: the output is one
\* layer deeper than the shallowest input row.
LayerForward(k, input_nodes) ==
    1 + Min({XData(k)[n] : n \in input_nodes})

\* lines 127-131: the rows of y the batch writes: those of the output nodes
\* whose node type is among the keys of h.
\* Mutant of RowsWritten: every row of the node types of h is written.
RowsWrittenWholeType(h_keys, output_nodes) ==
    {n \in AllNodes : n[1] \in h_keys}

RowsWritten(h_keys, output_nodes) ==
    {n \in output_nodes : n[1] \in h_keys}

\* lines 109-131: one mini-batch.  The sampled input nodes contain the output
\* nodes; the layer returns a tensor for at least the output nodes' types.
MiniBatch(r) ==
    /\ inf_pc[r] = "loop"
    /\ infer_nodes[r] # {}
    /\ \E B \in NextBatches(infer_nodes[r]) :
       \E nbrs \in SUBSET AllNodes :
       \E h_keys \in SUBSET inf.ntypes :
          LET k == layer_i[r]
              input_nodes == AsNodeDict(SamplerOutput(B \cup nbrs))
              output_nodes == AsNodeDict(SamplerOutput(B))
              h == LayerForward(k, input_nodes)
              rows == RowsWritten(h_keys, output_nodes)
          IN /\ {n[1] : n \in output_nodes} \subseteq h_keys
             /\ dist_tensors' = [dist_tensors EXCEPT ![k] =
                   [@ EXCEPT
                      !.data = [n \in AllNodes |->
                                   IF n \in rows THEN h ELSE @[n]],
                      !.nwrites = [n \in AllNodes |->
                                   IF n \in rows THEN @[n] + 1 ELSE @[n]],
                      !.writers = [n \in AllNodes |->
                                   IF n \in rows THEN @[n] \cup {r} ELSE @[n]]]]
             /\ infer_nodes' = [infer_nodes EXCEPT ![r] = @ \ B]
             /\ last_batch' = [last_batch EXCEPT ![r] = [h_keys |-> h_keys]]
    /\ IF task_tracker
       THEN /\ tracker' = [tracker EXCEPT ![r] = keep_alive(@, iter_l[r])]
            /\ keep_alive_calls' = [keep_alive_calls EXCEPT ![r] =
                  [n |-> @.n + 1, report_step |-> iter_l[r]]]
       ELSE UNCHANGED <<tracker, keep_alive_calls>>
    /\ iter_l' = [iter_l EXCEPT ![r] = @ + 1]
    /\ UNCHANGED notInf
    /\ UNCHANGED <<inf, inf_pc, layer_i, y_shape, inf_arrived, ret, task_tracker>>

\* lines 109 and 133-134: the dataloader is exhausted; x = y and the rank
\* calls th.distributed.barrier().
EndLayer(r) ==
    /\ inf_pc[r] = "loop"
    /\ infer_nodes[r] = {}
    /\ inf_arrived' = [inf_arrived EXCEPT ![r] = @ + 1]
    /\ inf_pc' = [inf_pc EXCEPT ![r] = "wait"]
    /\ UNCHANGED notInf
    /\ UNCHANGED <<inf, dist_tensors, layer_i, infer_nodes, iter_l, y_shape, ret,
                   task_tracker, tracker, keep_alive_calls, last_batch>>

\* Mutant of InfBarrierOpen: the barrier does not wait for the other ranks.
InfBarrierOpenMut(r) == TRUE

\* line 134: th.distributed.barrier() returns once every rank has made as
\* many barrier calls as this rank.
InfBarrierOpen(r) == \A q \in Ranks : inf_arrived[q] >= inf_arrived[r]

\* line 134 then line 84: the barrier returns, the loop goes to the next layer.
NextLayer(r) ==
    /\ inf_pc[r] = "wait"
    /\ InfBarrierOpen(r)
    /\ layer_i' = [layer_i EXCEPT ![r] = @ + 1]
    /\ inf_pc' = [inf_pc EXCEPT ![r] = "layer_head"]
    /\ UNCHANGED notInf
    /\ UNCHANGED <<inf, dist_tensors, infer_nodes, iter_l, y_shape, inf_arrived, ret,
                   task_tracker, tracker, keep_alive_calls, last_batch>>

\* line 135: `return y`, the tensors of the last layer; the caller reads them.
Return(r) ==
    /\ inf_pc[r] = "layer_head"
    /\ layer_i[r] >= inf.n_layers
    /\ ret' = [ret EXCEPT ![r] =
          [layer |-> layer_i[r] - 1,
           keys |-> DOMAIN y_shape[r][Len(y_shape[r])],
           data |-> dist_tensors[layer_i[r] - 1].data]]
    /\ inf_pc' = [inf_pc EXCEPT ![r] = "done"]
    /\ UNCHANGED notInf
    /\ UNCHANGED <<inf, dist_tensors, layer_i, infer_nodes, iter_l, y_shape, inf_arrived,
                   task_tracker, tracker, keep_alive_calls, last_batch>>

InfNext ==
    \E r \in Ranks :
       \/ BeginLayer(r)
       \/ MiniBatch(r)
       \/ EndLayer(r)
       \/ NextLayer(r)
       \/ Return(r)

(***************************************************************************)
(* alltoallv_cpu and alltoallv_nccl (data/utils.py).                       *)
(***************************************************************************)
\* The pairs <<src, dst>> of distinct ranks.
Pairs == {p \in Ranks \X Ranks : p[1] # p[2]}

\* The ranks of the process group: those that execute the call.
World == DOMAIN a2a_pc

\* input_tensor_list[r][i] of the call on rank r: every entry carries its own
\* payload; all inputs live on one device.
InputTensor(r, i_, dev) == [val |-> r * NRanks + i_ + 1, device |-> dev]

\* One call on every rank of a process group of W ranks.  Every rank passes
\* its own world_size argument and its own lists.
A2AInit ==
    /\ \E W \in 1 .. NRanks :
       \E be \in {"cpu", "nccl"}, dev \in {"cpu", "cuda"} :
       \E ws \in [0 .. (W - 1) -> 1 .. W] :
       \E bad \in SUBSET {p \in Pairs : p[1] < W /\ p[2] < W} :
          /\ a2a = [backend |-> be,
                    world_size |-> ws,
                    input_tensor_list |->
                       [r \in 0 .. (W - 1) |->
                          [i_ \in 0 .. (W - 1) |-> InputTensor(r, i_, dev)]],
                    \* the <<src, dst>> whose receive buffer on dst has another
                    \* shape than the tensor src sends
                    mismatched |-> bad]
          /\ a2a_pc = [r \in 0 .. (W - 1) |-> "send"]
          /\ a2a_i = [r \in 0 .. (W - 1) |-> 0]
          /\ output_tensor_list =
                [r \in 0 .. (W - 1) |->
                   [i_ \in 0 .. (W - 1) |-> [val |-> 0, device |-> "cpu"]]]
          /\ senders = [r \in 0 .. (W - 1) |-> <<>>]
          /\ recvs = [r \in 0 .. (W - 1) |-> <<>>]
          /\ in_flight = [p \in (0 .. (W - 1)) \X (0 .. (W - 1)) |-> <<>>]
          /\ a2a_arrived = [r \in 0 .. (W - 1) |-> 0]

\* lines 303, 305: tensor.to(th.device('cpu')) in alltoallv_cpu; alltoallv_nccl
\* (lines 336, 338) passes the tensor as it is.
ToBackendDevice(t) ==
    IF a2a.backend = "cpu" THEN [t EXCEPT !.device = "cpu"] ELSE t

\* Mutant of SendPayload: the rank's own entry is sent to every destination.
SendPayloadMut(r, dst) == ToBackendDevice(a2a.input_tensor_list[r][r])

\* lines 305, 338: the tensor rank r sends to rank dst.
SendPayload(r, dst) == ToBackendDevice(a2a.input_tensor_list[r][dst])

\* Mutant of IsLocal: the rank's own entry is exchanged like the others.
IsLocalNever(r, i_) == FALSE

\* lines 302, 309, 335, 342: `i == rank`, the entry is the rank's own.
IsLocal(r, i_) == i_ = r

\* Mutant of IsendReturns: the send is blocking, it returns when the
\* destination is receiving from this rank.
IsendReturnsBlocking(r, dst) == a2a_pc[dst] = "recv" /\ a2a_i[dst] = r

\* lines 305, 338: dist.isend is asynchronous, it returns a handle at once.
IsendReturns(r, dst) == TRUE

\* lines 301-306 and 334-339: one iteration of the send loop.  The rank's own
\* entry is stored directly; every other entry is handed to dist.isend, which
\* returns at once.
SendStep(r) ==
    /\ r \in World
    /\ a2a_pc[r] = "send"
    /\ a2a_i[r] < a2a.world_size[r]
    /\ IF IsLocal(r, a2a_i[r])
       THEN /\ output_tensor_list' = [output_tensor_list EXCEPT ![r][r] =
                  ToBackendDevice(a2a.input_tensor_list[r][r])]
            /\ UNCHANGED <<in_flight, senders>>
       ELSE /\ IsendReturns(r, a2a_i[r])
            /\ in_flight' = [in_flight EXCEPT ![<<r, a2a_i[r]>>] =
                  Append(@, SendPayload(r, a2a_i[r]))]
            /\ senders' = [senders EXCEPT ![r] = Append(@, a2a_i[r])]
            /\ UNCHANGED output_tensor_list
    /\ a2a_i' = [a2a_i EXCEPT ![r] = @ + 1]
    /\ UNCHANGED notA2A
    /\ UNCHANGED <<a2a, a2a_pc, recvs, a2a_arrived>>

\* lines 301 and 308: the send loop is over, the receive loop starts.
SendLoopDone(r) ==
    /\ r \in World
    /\ a2a_pc[r] = "send"
    /\ a2a_i[r] >= a2a.world_size[r]
    /\ a2a_pc' = [a2a_pc EXCEPT ![r] = "recv"]
    /\ a2a_i' = [a2a_i EXCEPT ![r] = 0]
    /\ UNCHANGED notA2A
    /\ UNCHANGED <<a2a, output_tensor_list, senders, recvs, in_flight, a2a_arrived>>

\* Mutant of RecvReady: the receive completes whatever the shape of the buffer.
RecvReadyAnyShape(src, r) == in_flight[<<src, r>>] # <<>>

\* lines 310, 343: dist.recv(output_tensor_list[i], src=i) returns once a
\* tensor sent by src has arrived and fits the buffer; nothing else ends it.
RecvReady(src, r) ==
    /\ in_flight[<<src, r>>] # <<>>
    /\ <<src, r>> \notin a2a.mismatched

\* lines 308-310 and 341-343: one iteration of the receive loop.  dist.recv
\* blocks until the tensor from rank i has arrived and fits the buffer; it
\* writes the values into the preallocated buffer.
RecvStep(r) ==
    /\ r \in World
    /\ a2a_pc[r] = "recv"
    /\ a2a_i[r] < a2a.world_size[r]
    /\ IF IsLocal(r, a2a_i[r])
       THEN UNCHANGED <<output_tensor_list, in_flight, recvs>>
       ELSE LET src == a2a_i[r] IN
            /\ RecvReady(src, r)
            /\ output_tensor_list' = [output_tensor_list EXCEPT ![r][src] =
                  [@ EXCEPT !.val = Head(in_flight[<<src, r>>]).val]]
            /\ in_flight' = [in_flight EXCEPT ![<<src, r>>] = Tail(@)]
            /\ recvs' = [recvs EXCEPT ![r] = Append(@, src)]
    /\ a2a_i' = [a2a_i EXCEPT ![r] = @ + 1]
    /\ UNCHANGED notA2A
    /\ UNCHANGED <<a2a, a2a_pc, senders, a2a_arrived>>

\* lines 312, 345: the receive loop is over, the rank calls the barrier.
A2AEnterBarrier(r) ==
    /\ r \in World
    /\ a2a_pc[r] = "recv"
    /\ a2a_i[r] >= a2a.world_size[r]
    /\ a2a_arrived' = [a2a_arrived EXCEPT ![r] = @ + 1]
    /\ a2a_pc' = [a2a_pc EXCEPT ![r] = "wait"]
    /\ UNCHANGED notA2A
    /\ UNCHANGED <<a2a, a2a_i, output_tensor_list, senders, recvs, in_flight>>

\* Mutant of A2ABarrierOpen: the barrier returns at once.
A2ABarrierOpenNoWait(r) == TRUE

\* lines 312, 345: th.distributed.barrier() returns once every rank has called it.
A2ABarrierOpen(r) == \A q \in World : a2a_arrived[q] >= a2a_arrived[r]

\* lines 312, 345: the barrier returns and so does the function.
A2AReturn(r) ==
    /\ r \in World
    /\ a2a_pc[r] = "wait"
    /\ A2ABarrierOpen(r)
    /\ a2a_pc' = [a2a_pc EXCEPT ![r] = "done"]
    /\ UNCHANGED notA2A
    /\ UNCHANGED <<a2a, a2a_i, output_tensor_list, senders, recvs, in_flight,
                   a2a_arrived>>

\* The next step of rank r, a process of its own.
A2ARank(r) ==
    \/ SendStep(r)
    \/ SendLoopDone(r)
    \/ RecvStep(r)
    \/ A2AEnterBarrier(r)
    \/ A2AReturn(r)

A2ANext ==
    \E r \in Ranks :
       \/ SendStep(r)
       \/ SendLoopDone(r)
       \/ RecvStep(r)
       \/ A2AEnterBarrier(r)
       \/ A2AReturn(r)

(***************************************************************************)
(* alltoall_cpu and all_reduce_sum (data/utils.py): one call of one of the *)
(* two functions on every rank of a process group.                         *)
(***************************************************************************)
\* The ranks of the process group: those that execute the call.
CollWorld == DOMAIN coll_pc

\* `None`, passed as scatter_list by the ranks that are not the source.
NoList == <<>>

CollInit ==
    /\ \E W \in 1 .. NRanks :
       \E fn \in {"alltoall_cpu", "all_reduce_sum"}, dev \in {"cpu", "cuda"} :
       \E t \in [0 .. (W - 1) -> 0 .. MaxTensor] :
          /\ fn = "alltoall_cpu" => t = [r \in 0 .. (W - 1) |-> 0]
          /\ fn = "all_reduce_sum" => dev = "cpu"
          /\ coll = [fn |-> fn,
                     world_size |-> W,
                     input_tensor_list |->
                        [r \in 0 .. (W - 1) |->
                           [i_ \in 0 .. (W - 1) |-> InputTensor(r, i_, dev)]],
                     tensor |-> t]
          /\ coll_pc = [r \in 0 .. (W - 1) |->
                          IF fn = "alltoall_cpu" THEN "scatter" ELSE "all_reduce"]
          /\ scatter_i = [r \in 0 .. (W - 1) |-> 0]
          /\ scatter_out =
                [r \in 0 .. (W - 1) |->
                   [i_ \in 0 .. (W - 1) |-> [val |-> 0, device |-> "cpu"]]]
          /\ scattered = [p \in (0 .. (W - 1)) \X (0 .. (W - 1)) |-> <<>>]
          /\ scatter_calls = [r \in 0 .. (W - 1) |-> <<>>]
          /\ tensor = t
          /\ reduce_in = {}

\* Mutant of ScatterList: the source supplies its own entry for every rank.
ScatterListOwn(r, i_) ==
    IF i_ = r
    THEN [j \in CollWorld |-> [coll.input_tensor_list[r][r] EXCEPT !.device = "cpu"]]
    ELSE NoList

\* lines 277, 279: the scatter_list argument of round i on rank r:
\* `input_tensor_list if i == rank else None`, the tensors moved to the cpu.
ScatterList(r, i_) ==
    IF i_ = r
    THEN [j \in CollWorld |-> [coll.input_tensor_list[r][j] EXCEPT !.device = "cpu"]]
    ELSE NoList

\* lines 278-279: one iteration of the loop, dist.scatter(output_tensor_list[i],
\* scatter_list, src=i).  On the source the collective sends entry j of the
\* list to rank j and copies its own entry; on the other ranks it returns when
\* the entry from the source has arrived, written into output_tensor_list[i].
ScatterStep(r) ==
    /\ r \in CollWorld
    /\ coll_pc[r] = "scatter"
    /\ scatter_i[r] < coll.world_size
    /\ LET src == scatter_i[r]
           list == ScatterList(r, src)
       IN /\ IF src = r
             THEN /\ list # NoList
                  /\ scattered' = [p \in DOMAIN scattered |->
                        IF p[1] = r /\ p[2] # r
                        THEN Append(scattered[p], list[p[2]])
                        ELSE scattered[p]]
                  /\ scatter_out' = [scatter_out EXCEPT ![r][src] =
                        [@ EXCEPT !.val = list[r].val]]
             ELSE /\ list = NoList
                  /\ scattered[<<src, r>>] # <<>>
                  /\ scatter_out' = [scatter_out EXCEPT ![r][src] =
                        [@ EXCEPT !.val = Head(scattered[<<src, r>>]).val]]
                  /\ scattered' = [scattered EXCEPT ![<<src, r>>] = Tail(@)]
          /\ scatter_calls' = [scatter_calls EXCEPT ![r] =
                Append(@, [src |-> src, supplies |-> list # NoList])]
    /\ scatter_i' = [scatter_i EXCEPT ![r] = @ + 1]
    /\ UNCHANGED notColl
    /\ UNCHANGED <<coll, coll_pc, tensor, reduce_in>>

\* line 278: range(world_size) is exhausted, alltoall_cpu returns.
ScatterReturn(r) ==
    /\ r \in CollWorld
    /\ coll_pc[r] = "scatter"
    /\ scatter_i[r] >= coll.world_size
    /\ coll_pc' = [coll_pc EXCEPT ![r] = "done"]
    /\ UNCHANGED notColl
    /\ UNCHANGED <<coll, scatter_i, scatter_out, scattered, scatter_calls, tensor,
                   reduce_in>>

RECURSIVE SumOf(_)
\* The sum of the tensors of a set of contributions <<rank, tensor>>.
SumOf(S) ==
    IF S = {} THEN 0
    ELSE LET p == CHOOSE q \in S : TRUE IN p[2] + SumOf(S \ {p})

\* Mutant of ReduceResult: the sum is added to the rank's tensor.
ReduceResultAdded(r, S) == tensor[r] + SumOf(S)

\* line 350: op=dist.ReduceOp.SUM, the tensor becomes the sum over all ranks.
ReduceResult(r, S) == SumOf(S)

\* line 350: the rank calls dist.all_reduce and contributes its tensor.
AllReduceEnter(r) ==
    /\ r \in CollWorld
    /\ coll_pc[r] = "all_reduce"
    /\ reduce_in' = reduce_in \cup {<<r, tensor[r]>>}
    /\ coll_pc' = [coll_pc EXCEPT ![r] = "reducing"]
    /\ UNCHANGED notColl
    /\ UNCHANGED <<coll, scatter_i, scatter_out, scattered, scatter_calls, tensor>>

\* line 350: dist.all_reduce returns once every rank has contributed; the
\* tensor is overwritten in place with the result.
AllReduceReturn(r) ==
    /\ r \in CollWorld
    /\ coll_pc[r] = "reducing"
    /\ {p[1] : p \in reduce_in} = CollWorld
    /\ tensor' = [tensor EXCEPT ![r] = ReduceResult(r, reduce_in)]
    /\ coll_pc' = [coll_pc EXCEPT ![r] = "done"]
    /\ UNCHANGED notColl
    /\ UNCHANGED <<coll, scatter_i, scatter_out, scattered, scatter_calls, reduce_in>>

CollNext ==
    \E r \in Ranks :
       \/ ScatterStep(r)
       \/ ScatterReturn(r)
       \/ AllReduceEnter(r)
       \/ AllReduceReturn(r)

(***************************************************************************)
(* Top-k checkpoint retention (GSgnnTrainer.save_topk_models, called at    *)
(* lines 127 and 153 of ep_trainer.py).  Its code is in gsgnn_trainer.py;  *)
(* the policy below is the documented one: keep the K best-scored          *)
(* checkpoints, evict the worst when over capacity, ties go to the most    *)
(* recent.                                                                 *)
(***************************************************************************)
TopKScores == 0 .. MaxTopScore

\* Checkpoint a ranks below checkpoint b: a lower score, or the same score and
\* saved earlier.
RanksBelow(a, b) ==
    \/ a.score < b.score
    \/ (a.score = b.score /\ a.step < b.step)

\* The worst checkpoint of a non-empty set.
Worst(S) == CHOOSE w \in S : \A c \in S : c = w \/ RanksBelow(w, c)

\* Mutant of TopKInsert: a tie goes to the older checkpoint.
TopKInsertTieOld(S, k, new) ==
    IF Cardinality(S) < k THEN S \cup {new}
    ELSE IF Worst(S).score < new.score
         THEN (S \ {Worst(S)}) \cup {new}
         ELSE S

\* Mutant of TopKInsert: the oldest checkpoint is evicted, whatever the scores.
TopKInsertFifo(S, k, new) ==
    IF Cardinality(S) < k THEN S \cup {new}
    ELSE LET oldest == CHOOSE c \in S : \A e \in S : c.step <= e.step
         IN (S \ {oldest}) \cup {new}

\* The retained set after the checkpoint `new` is saved: it is added, and when
\* that exceeds k the worst one is evicted (which may be the new one).
TopKInsert(S, k, new) ==
    IF Cardinality(S \cup {new}) <= k THEN S \cup {new}
    ELSE (S \cup {new}) \ {Worst(S \cup {new})}

TopKInit ==
    /\ topk_model_to_save \in 1 .. MaxK
    /\ retained = {}
    /\ seen = <<>>

\* save_topk_models(model, epoch, i, val_score, save_model_path): the next
\* checkpoint save of the stream, with its validation score.
SaveTopK ==
    /\ Len(seen) < MaxSaves
    /\ \E score \in TopKScores :
          LET new == [step |-> Len(seen) + 1, score |-> score] IN
          /\ retained' = TopKInsert(retained, topk_model_to_save, new)
          /\ seen' = Append(seen, new)
    /\ UNCHANGED topk_model_to_save
    /\ UNCHANGED notTopK

TopKNext == SaveTopK

(***************************************************************************)
(* Raw-text and ID-map persistence (data/utils.py).  Python values carry   *)
(* their type; a file is a pickle of a value or a text of characters.      *)
(***************************************************************************)
PyStr(v) == [type |-> "str", val |-> v]
PyDict(v) == [type |-> "dict", val |-> v]

\* The characters of a text line, the lines, the lists of lines, the
\* raw_text dicts (node type -> list of lines) and the ID maps.
Chars == {"a", " ", "\n"}
Whitespace == {" ", "\n"}
TextLines == UNION {[1 .. n -> Chars] : n \in 0 .. MaxLineLen}
TextData == UNION {[1 .. n -> TextLines] : n \in 0 .. MaxLines}
TextNTypes == {"paper", "author"}
RawTexts == UNION {[T -> TextData] : T \in SUBSET TextNTypes}
RawIds == {"x", "y"}
MapDatas == UNION {[K -> 0 .. MaxMapId] : K \in SUBSET RawIds}

\* lines 17 and 25, 34, 42, 51: "{}_{}.txt".format(dname, ntype) and
\* "{}.pkl".format(dname), joined to `path`.
TxtFile(dname, ntype) == <<dname, ntype, "txt">>
PklFile(dname) == <<dname, "pkl">>

PickleFile(obj) == [kind |-> "pickle", obj |-> obj, chars |-> <<>>]
TextFile(chars) == [kind |-> "text", obj |-> PyStr(""), chars |-> chars]

\* How a call ends: it raises, or it returns a value.
Raised(e) == [status |-> e, value |-> <<>>]
Returned(v) == [status |-> "ok", value |-> v]

\* The built-in open: a binary mode takes no encoding argument (ValueError,
\* raised before the file is touched).
OpenError(mode, encoding) ==
    IF mode \in {"wb", "rb"} /\ encoding # "None" THEN "ValueError" ELSE "ok"

\* lines 22-23: every line is written followed by a newline.
RECURSIVE WriteLines(_)
WriteLines(text_data) ==
    IF text_data = <<>> THEN <<>>
    ELSE Head(text_data) \o <<"\n">> \o WriteLines(Tail(text_data))

\* line 61: iterating a text file yields its lines, each up to and including
\* its newline, the last one up to the end of the file.
RECURSIVE FileLines(_)
FileLines(chars) ==
    IF chars = <<>> THEN <<>>
    ELSE LET ends == {k \in 1 .. Len(chars) : chars[k] = "\n"} \cup {Len(chars)}
             k == CHOOSE e \in ends : \A f \in ends : e <= f
         IN <<SubSeq(chars, 1, k)>> \o FileLines(SubSeq(chars, k + 1, Len(chars)))

\* line 62: str.strip() removes leading and trailing whitespace.
RECURSIVE Strip(_)
Strip(line) ==
    IF line = <<>> THEN <<>>
    ELSE IF Head(line) \in Whitespace THEN Strip(Tail(line))
    ELSE IF line[Len(line)] \in Whitespace THEN Strip(SubSeq(line, 1, Len(line) - 1))
    ELSE line

\* lines 58-63: the list of stripped lines of one text file.
ReadLines(chars) ==
    LET ls == FileLines(chars) IN [n \in 1 .. Len(ls) |-> Strip(ls[n])]

\* The directory after the files of `new` have been written.
WriteFiles(fs, new) ==
    [f \in DOMAIN fs \cup DOMAIN new |-> IF f \in DOMAIN new THEN new[f] ELSE fs[f]]

\* lines 15-19: config = {"nodes": {ntype: nfile}}.
RawTextConfig(dname, raw_text) ==
    PyDict([k \in {"nodes"} |->
              PyDict([ntype \in DOMAIN raw_text |-> PyStr(TxtFile(dname, ntype))])])

\* lines 12-29: save_raw_text writes one text file per node type and the
\* pickled config.
SaveRawTextFiles(dname, raw_text) ==
    [f \in {TxtFile(dname, ntype) : ntype \in DOMAIN raw_text} \cup {PklFile(dname)} |->
       IF f = PklFile(dname)
       THEN PickleFile(RawTextConfig(dname, raw_text))
       ELSE TextFile(WriteLines(raw_text[f[2]]))]

\* lines 48-66: load_raw_text unpickles the config and, for every item
\* (ntype, nfile) of it, joins nfile to the path (TypeError unless nfile is a
\* string), opens that file and reads its stripped lines.
LoadRawTextResult(fs, dname) ==
    IF PklFile(dname) \notin DOMAIN fs THEN Raised("FileNotFoundError")
    ELSE LET config == fs[PklFile(dname)].obj.val
         IN IF \E ntype \in DOMAIN config : config[ntype].type # "str"
            THEN Raised("TypeError")
            ELSE IF \E ntype \in DOMAIN config : config[ntype].val \notin DOMAIN fs
            THEN Raised("FileNotFoundError")
            ELSE Returned([ntype \in DOMAIN config |->
                             ReadLines(fs[config[ntype].val].chars)])

IOInit ==
    /\ \E raw_text \in RawTexts, map_data \in MapDatas :
          io_args = [dname |-> "dataset", raw_text |-> raw_text, map_data |-> map_data]
    /\ files = <<>>
    /\ io_saved = [raw_text |-> FALSE, maps |-> FALSE, maps_after_raw |-> FALSE]
    /\ io_result = [fn |-> "none"] @@ Returned(<<>>)

\* lines 12-29: save_raw_text(path, dname, raw_text).
SaveRawText ==
    /\ files' = WriteFiles(files, SaveRawTextFiles(io_args.dname, io_args.raw_text))
    /\ io_saved' = [io_saved EXCEPT !.raw_text = TRUE, !.maps_after_raw = FALSE]
    /\ io_result' = [fn |-> "save_raw_text"] @@ Returned(<<>>)
    /\ UNCHANGED io_args
    /\ UNCHANGED notIO

\* lines 48-66: load_raw_text(path, dname).
LoadRawText ==
    /\ io_result' = [fn |-> "load_raw_text"] @@ LoadRawTextResult(files, io_args.dname)
    /\ UNCHANGED <<io_args, files, io_saved>>
    /\ UNCHANGED notIO

\* lines 31-37: save_maps(path, dname, map_data) opens the file with mode
\* 'wb' and encoding='utf-8', then pickles map_data into it.
SaveMaps ==
    /\ IF OpenError("wb", "utf-8") = "ok"
       THEN /\ files' = WriteFiles(files,
                  [f \in {PklFile(io_args.dname)} |-> PickleFile(io_args.map_data)])
            /\ io_result' = [fn |-> "save_maps"] @@ Returned(<<>>)
       ELSE /\ files' = files
            /\ io_result' = [fn |-> "save_maps"] @@ Raised(OpenError("wb", "utf-8"))
    /\ io_saved' = [io_saved EXCEPT !.maps = TRUE, !.maps_after_raw = io_saved.raw_text]
    /\ UNCHANGED io_args
    /\ UNCHANGED notIO

\* lines 39-46: load_maps(path, dname) opens the file with mode 'rb' and
\* encoding='utf-8', then unpickles it.
LoadMaps ==
    /\ io_result' = [fn |-> "load_maps"] @@
          (IF OpenError("rb", "utf-8") # "ok" THEN Raised(OpenError("rb", "utf-8"))
           ELSE IF PklFile(io_args.dname) \notin DOMAIN files
           THEN Raised("FileNotFoundError")
           ELSE Returned(files[PklFile(io_args.dname)].obj))
    /\ UNCHANGED <<io_args, files, io_saved>>
    /\ UNCHANGED notIO

IONext == SaveRawText \/ LoadRawText \/ SaveMaps \/ LoadMaps

(***************************************************************************)
(* The checkpoints of a run: every save writes the model state to a        *)
(* directory named by epoch and iteration, the iteration being the         *)
(* sentinel None for an epoch-end save; a reload reads the directory back. *)
(***************************************************************************)
Params == 0 .. MaxParam

\* Mutant of CheckpointDir: the directory is named by the iteration alone.
CheckpointDirIterOnly(epoch_, iter) == <<0, iter>>

\* The directory of the checkpoint saved at (epoch, iteration or None).
CheckpointDir(epoch_, iter) == <<epoch_, iter>>

NotReloaded == [epoch |-> NoneVal, iter |-> NoneVal, state |-> NoneVal]

CkptInit ==
    /\ model_state \in Params
    /\ ckpt_at = [epoch |-> 0, iter |-> 0]
    /\ ckpt_dirs = <<>>
    /\ ckpt_saved = <<>>
    /\ reloaded = NotReloaded

\* The directories after the model state has been saved at (epoch, iter).
SaveModel(dirs, epoch_, iter, state) ==
    [n \in DOMAIN dirs \cup {CheckpointDir(epoch_, iter)} |->
       IF n = CheckpointDir(epoch_, iter) THEN state ELSE dirs[n]]

\* The history after the save at (epoch, iter).
Saved(hist, epoch_, iter, state) ==
    [c \in DOMAIN hist \cup {<<epoch_, iter>>} |->
       IF c = <<epoch_, iter>> THEN state ELSE hist[c]]

\* A training step changes the parameters.
CkptTrain ==
    /\ ckpt_at.epoch < MaxCkptEpochs
    /\ ckpt_at.iter < MaxCkptIters
    /\ \E p \in Params \ {model_state} : model_state' = p
    /\ ckpt_at' = [ckpt_at EXCEPT !.iter = @ + 1]
    /\ UNCHANGED <<ckpt_dirs, ckpt_saved, reloaded>>
    /\ UNCHANGED notCkpt

\* A mid-epoch save, with the iteration.
CkptSaveMid ==
    /\ ckpt_at.iter > 0
    /\ <<ckpt_at.epoch, ckpt_at.iter>> \notin DOMAIN ckpt_saved
    /\ ckpt_dirs' = SaveModel(ckpt_dirs, ckpt_at.epoch, ckpt_at.iter, model_state)
    /\ ckpt_saved' = Saved(ckpt_saved, ckpt_at.epoch, ckpt_at.iter, model_state)
    /\ UNCHANGED <<model_state, ckpt_at, reloaded>>
    /\ UNCHANGED notCkpt

\* The epoch-end save, with iteration None; the next epoch starts.
CkptSaveEpochEnd ==
    /\ ckpt_at.epoch < MaxCkptEpochs
    /\ ckpt_dirs' = SaveModel(ckpt_dirs, ckpt_at.epoch, NoneVal, model_state)
    /\ ckpt_saved' = Saved(ckpt_saved, ckpt_at.epoch, NoneVal, model_state)
    /\ ckpt_at' = [epoch |-> ckpt_at.epoch + 1, iter |-> 0]
    /\ UNCHANGED <<model_state, reloaded>>
    /\ UNCHANGED notCkpt

\* A checkpoint that was saved is reloaded into the model.
CkptReload ==
    /\ \E c \in DOMAIN ckpt_saved :
          /\ model_state' = ckpt_dirs[CheckpointDir(c[1], c[2])]
          /\ reloaded' = [epoch |-> c[1], iter |-> c[2], state |-> model_state']
    /\ UNCHANGED <<ckpt_at, ckpt_dirs, ckpt_saved>>
    /\ UNCHANGED notCkpt

CkptNext == CkptTrain \/ CkptSaveMid \/ CkptSaveEpochEnd \/ CkptReload

(***************************************************************************)
(* get_id (data/utils.py): raw node ids are numbered as they appear.       *)
(***************************************************************************)
\* The raw node ids (dict keys); none of them is an integer id.
Keys == {10 + k : k \in 0 .. MaxKey}

\* Mutant of get_id: the ids are numbered from 1.
get_idFromOne(d, key) ==
    IF key \in DOMAIN d
    THEN [nid_dict |-> d, nid |-> d[key], is_new |-> FALSE]
    ELSE [nid_dict |-> [k \in DOMAIN d \cup {key} |->
                          IF k = key THEN Cardinality(DOMAIN d) + 1 ELSE d[k]],
          nid |-> Cardinality(DOMAIN d) + 1,
          is_new |-> TRUE]

\* lines 68-84: get_id(nid_dict, key) returns (nid, is_new) and may add the
\* key to the dict: a key that is not in the dict gets len(nid_dict).
get_id(d, key) ==
    IF key \in DOMAIN d
    THEN [nid_dict |-> d, nid |-> d[key], is_new |-> FALSE]
    ELSE [nid_dict |-> [k \in DOMAIN d \cup {key} |->
                          IF k = key THEN Cardinality(DOMAIN d) ELSE d[k]],
          nid |-> Cardinality(DOMAIN d),
          is_new |-> TRUE]

\* The dict starts empty.
IdInit ==
    /\ nid_dict = <<>>
    /\ id_calls = <<>>

\* One call get_id(nid_dict, key).
GetId ==
    /\ Len(id_calls) < MaxIdCalls
    /\ \E key \in Keys :
          LET res == get_id(nid_dict, key) IN
          /\ nid_dict' = res.nid_dict
          /\ id_calls' = Append(id_calls, [key |-> key, nid |-> res.nid, is_new |-> res.is_new])
    /\ UNCHANGED notId

IdNext == GetId

(***************************************************************************)
(* generated_train_valid_test_splits (data/utils.py).  A percentage is a   *)
(* number of PctDenominator-ths; the product with the edge count is        *)
(* truncated as int() does.  Floating-point rounding can move a slice      *)
(* bound by one edge; it keeps the three bounds in order, as sums and      *)
(* products of non-negative floats and int() are monotone.                 *)
(***************************************************************************)
Pcts == 0 .. PctDenominator

\* int(pct * number_edges_etype)
IntOf(pct, n) == (pct * n) \div PctDenominator

\* Python's seq[a:b] for 0 <= a and 0 <= b.
Slice(seq, a, b) == SubSeq(seq, a + 1, IF b < Len(seq) THEN b ELSE Len(seq))

\* The elements of a sequence.
Elems(seq) == {seq[k] : k \in 1 .. Len(seq)}

\* th.randperm(n): the permutations of 0 .. n-1.
RandPerms(n) ==
    {ids \in [1 .. n -> 0 .. (n - 1)] :
        \A a \in 1 .. n, b \in 1 .. n : a # b => ids[a] # ids[b]}

\* th.ones(n), th.zeros(n)
Ones(n) == [e \in 0 .. (n - 1) |-> 1]
Zeros(n) == [e \in 0 .. (n - 1) |-> 0]

\* mask[ids] = v
MaskSet(mask, ids, v) == [e \in DOMAIN mask |-> IF e \in Elems(ids) THEN v ELSE mask[e]]

\* Mutant of ValStart: the validation slice starts at the first edge.
ValStartZero(train_pct, n) == 0

\* lines 228: the validation slice starts where the training slice ends.
ValStart(train_pct, n) == IntOf(train_pct, n)

\* lines 223-252: the edge ids and the graph masks of one edge type with n
\* edges, edge_ids being the permutation drawn.
SplitsOfEtype(edge_ids, n, a) ==
    LET train == Slice(edge_ids, 0, IntOf(a.train_pct, n))
        val == Slice(edge_ids, ValStart(a.train_pct, n),
                     IntOf(a.train_pct + a.valid_pct, n))
        test == Slice(edge_ids, IntOf(a.train_pct + a.valid_pct, n),
                      IntOf(a.train_pct + a.valid_pct + a.test_pct, n))
    IN [train_eids |-> train, val_eids |-> val, test_eids |-> test,
        train_graph_mask |->
           IF a.use_non_selected_edges
           THEN MaskSet(MaskSet(Ones(n), val, 0), test, 0)
           ELSE MaskSet(Zeros(n), train, 1),
        val_graph_mask |->
           IF a.use_non_selected_edges
           THEN MaskSet(Ones(n), test, 0)
           ELSE MaskSet(MaskSet(Zeros(n), train, 1), val, 1),
        test_graph_mask |->
           IF a.use_non_selected_edges
           THEN Ones(n)
           ELSE MaskSet(MaskSet(MaskSet(Zeros(n), train, 1), val, 1), test, 1)]

\* A call on a graph of 1 .. MaxEtypes edge types with percentages that sum
\* to at most 1.
SplitInit ==
    /\ \E E \in 1 .. MaxEtypes :
       \E n_edges \in [1 .. E -> 0 .. MaxEdges] :
       \E tp \in Pcts, vp \in Pcts, sp \in Pcts, use \in BOOLEAN :
          /\ tp + vp + sp <= PctDenominator
          /\ split_args = [n_edges |-> n_edges, train_pct |-> tp, valid_pct |-> vp,
                           test_pct |-> sp, use_non_selected_edges |-> use]
    /\ split_out = <<>>
    /\ split_pc = "loop"

\* lines 223-252: one iteration of the loop over g.canonical_etypes.
SplitEtype ==
    /\ split_pc = "loop"
    /\ Len(split_out) < Len(split_args.n_edges)
    /\ LET n == split_args.n_edges[Len(split_out) + 1] IN
       \E edge_ids \in RandPerms(n) :
          split_out' = Append(split_out, SplitsOfEtype(edge_ids, n, split_args))
    /\ UNCHANGED <<split_args, split_pc>>
    /\ UNCHANGED notSplit

\* lines 259-260: the dicts are returned.
SplitReturn ==
    /\ split_pc = "loop"
    /\ Len(split_out) = Len(split_args.n_edges)
    /\ split_pc' = "done"
    /\ UNCHANGED <<split_args, split_out>>
    /\ UNCHANGED notSplit

SplitNext == SplitEtype \/ SplitReturn

(***************************************************************************)
(* The worker processes of process_node_data and process_edge_data         *)
(* (tools/preprocess.py): one worker per input file, started by the parent *)
(* process, which joins them through wait_process and wait_all.            *)
(***************************************************************************)
\* Mutant of MustWait: wait_process returns while len(q) <= max_proc.
MustWaitLate(queue, max_proc) == Len(queue) > max_proc

\* line 154: wait_process returns at once if len(q) < max_proc.
MustWait(queue, max_proc) == ~(Len(queue) < max_proc)

\* The workers that have been started and not joined.
NotJoined == {p \in DOMAIN workers : workers[p] # "joined"}

ProcInit ==
    /\ \E np \in 1 .. MaxProcs, C \in 1 .. MaxConfs :
       \E nf \in [1 .. C -> 0 .. MaxFiles] :
          proc_args = [num_processes |-> np, in_files |-> nf]
    /\ proc_pc = "conf"
    /\ conf_i = 0
    /\ file_i = 0
    /\ proc_q = <<>>
    /\ proc_j = 0
    /\ workers = <<>>

\* lines 264-273, 354-363: the next process_conf, `q = []`.
NextConf ==
    /\ proc_pc = "conf"
    /\ conf_i < Len(proc_args.in_files)
    /\ proc_q' = <<>>
    /\ file_i' = 0
    /\ proc_pc' = "files"
    /\ UNCHANGED <<proc_args, conf_i, proc_j, workers>>
    /\ UNCHANGED notProc

\* lines 274-278, 364-369: Process(...), p.start(), q.append(p).
StartWorker ==
    /\ proc_pc = "files"
    /\ file_i < proc_args.in_files[conf_i + 1]
    /\ workers' = Append(workers, "running")
    /\ proc_q' = Append(proc_q, Len(workers) + 1)
    /\ proc_pc' = "wait_process"
    /\ UNCHANGED <<proc_args, conf_i, file_i, proc_j>>
    /\ UNCHANGED notProc

\* A worker finishes its target function.
WorkerExit ==
    /\ \E p \in DOMAIN workers :
          /\ workers[p] = "running"
          /\ workers' = [workers EXCEPT ![p] = "exited"]
    /\ UNCHANGED <<proc_args, proc_pc, conf_i, file_i, proc_q, proc_j>>
    /\ UNCHANGED notProc

\* lines 154-155: wait_process returns without waiting.
WaitProcessReturn ==
    /\ proc_pc = "wait_process"
    /\ ~MustWait(proc_q, proc_args.num_processes)
    /\ file_i' = file_i + 1
    /\ proc_pc' = "files"
    /\ UNCHANGED <<proc_args, conf_i, proc_q, proc_j, workers>>
    /\ UNCHANGED notProc

\* lines 156-157: q[0].join() returns once that worker has exited; q.pop(0).
WaitProcessJoin ==
    /\ proc_pc = "wait_process"
    /\ MustWait(proc_q, proc_args.num_processes)
    /\ workers[Head(proc_q)] # "running"
    /\ workers' = [workers EXCEPT ![Head(proc_q)] = "joined"]
    /\ proc_q' = Tail(proc_q)
    /\ file_i' = file_i + 1
    /\ proc_pc' = "files"
    /\ UNCHANGED <<proc_args, conf_i, proc_j>>
    /\ UNCHANGED notProc

\* lines 279, 370: the loop over in_files is over, wait_all(q) is called.
WaitAllCall ==
    /\ proc_pc = "files"
    /\ file_i >= proc_args.in_files[conf_i + 1]
    /\ proc_j' = 0
    /\ proc_pc' = "wait_all"
    /\ UNCHANGED <<proc_args, conf_i, file_i, proc_q, workers>>
    /\ UNCHANGED notProc

\* lines 167-168: p.join() for the next p of q; it returns once p has exited.
WaitAllJoin ==
    /\ proc_pc = "wait_all"
    /\ proc_j < Len(proc_q)
    /\ workers[proc_q[proc_j + 1]] # "running"
    /\ workers' = [workers EXCEPT ![proc_q[proc_j + 1]] = "joined"]
    /\ proc_j' = proc_j + 1
    /\ UNCHANGED <<proc_args, proc_pc, conf_i, file_i, proc_q>>
    /\ UNCHANGED notProc

\* line 167: the loop of wait_all is over, wait_all returns.
WaitAllReturn ==
    /\ proc_pc = "wait_all"
    /\ proc_j >= Len(proc_q)
    /\ conf_i' = conf_i + 1
    /\ proc_pc' = "conf"
    /\ UNCHANGED <<proc_args, file_i, proc_q, proc_j, workers>>
    /\ UNCHANGED notProc

\* lines 264, 354: the loop over process_confs is over.
ProcReturn ==
    /\ proc_pc = "conf"
    /\ conf_i >= Len(proc_args.in_files)
    /\ proc_pc' = "done"
    /\ UNCHANGED <<proc_args, conf_i, file_i, proc_q, proc_j, workers>>
    /\ UNCHANGED notProc

ProcNext ==
    \/ NextConf
    \/ StartWorker
    \/ WorkerExit
    \/ WaitProcessReturn
    \/ WaitProcessJoin
    \/ WaitAllCall
    \/ WaitAllJoin
    \/ WaitAllReturn
    \/ ProcReturn

(***************************************************************************)
(* The values the variables of a subsystem keep while another one runs.    *)
(***************************************************************************)
FitIdle ==
    /\ args = <<>>
    /\ pc = <<>>
    /\ epoch = <<>>
    /\ i = <<>>
    /\ total_steps = <<>>
    /\ early_stop = <<>>
    /\ val_score = <<>>
    /\ arrived = <<>>
    /\ trained = <<>>
    /\ stop_seen = <<>>
    /\ epoch_evals = <<>>
    /\ epoch_saves = <<>>
    /\ mid_saves = <<>>
    /\ last_save = <<>>
    /\ ops = <<>>
    /\ calls = <<>>
    /\ do_eval_calls = <<>>
    /\ prints = <<>>
    /\ logged = <<>>
    /\ answers = <<>>

InfIdle ==
    /\ inf = <<>>
    /\ dist_tensors = <<>>
    /\ inf_pc = <<>>
    /\ layer_i = <<>>
    /\ infer_nodes = <<>>
    /\ iter_l = <<>>
    /\ y_shape = <<>>
    /\ inf_arrived = <<>>
    /\ ret = <<>>
    /\ task_tracker = FALSE
    /\ tracker = <<>>
    /\ keep_alive_calls = <<>>
    /\ last_batch = <<>>

A2AIdle ==
    /\ a2a = <<>>
    /\ a2a_pc = <<>>
    /\ a2a_i = <<>>
    /\ output_tensor_list = <<>>
    /\ senders = <<>>
    /\ recvs = <<>>
    /\ in_flight = <<>>
    /\ a2a_arrived = <<>>

CollIdle ==
    /\ coll = <<>>
    /\ coll_pc = <<>>
    /\ scatter_i = <<>>
    /\ scatter_out = <<>>
    /\ scattered = <<>>
    /\ scatter_calls = <<>>
    /\ tensor = <<>>
    /\ reduce_in = {}

TopKIdle ==
    /\ topk_model_to_save = 0
    /\ retained = {}
    /\ seen = <<>>

IOIdle ==
    /\ io_args = <<>>
    /\ files = <<>>
    /\ io_saved = <<>>
    /\ io_result = <<>>

CkptIdle ==
    /\ model_state = 0
    /\ ckpt_at = <<>>
    /\ ckpt_dirs = <<>>
    /\ ckpt_saved = <<>>
    /\ reloaded = <<>>

IdIdle ==
    /\ nid_dict = <<>>
    /\ id_calls = <<>>

SplitIdle ==
    /\ split_args = <<>>
    /\ split_out = <<>>
    /\ split_pc = "idle"

ProcIdle ==
    /\ proc_args = <<>>
    /\ proc_pc = "idle"
    /\ conf_i = 0
    /\ file_i = 0
    /\ proc_q = <<>>
    /\ proc_j = 0
    /\ workers = <<>>

ToolsIdle == IdIdle /\ SplitIdle /\ ProcIdle

(***************************************************************************)
(* The specifications.                                                     *)
(***************************************************************************)
\* fit on NRanks ranks.
Init == FitInit /\ InfIdle /\ A2AIdle /\ CollIdle /\ TopKIdle /\ IOIdle /\ CkptIdle /\ ToolsIdle
Next == FitNext
Spec == Init /\ [][Next]_vars

\* fit with long train loaders.
InitLong == FitInitLong /\ InfIdle /\ A2AIdle /\ CollIdle /\ TopKIdle /\ IOIdle /\ CkptIdle /\ ToolsIdle
SpecLong == InitLong /\ [][Next]_vars

\* fit on NRanks ranks that get the same data and the same answers, every
\* rank being a process that keeps running.
InitAgree ==
    FitInitAgree /\ InfIdle /\ A2AIdle /\ CollIdle /\ TopKIdle /\ IOIdle /\ CkptIdle /\ ToolsIdle
SpecAgree == InitAgree /\ [][Next]_vars /\ \A r \in Ranks : WF_vars(FitRank(r))

\* dist_inference on NRanks ranks.
InitInfer == InfInit /\ FitIdle /\ A2AIdle /\ CollIdle /\ TopKIdle /\ IOIdle /\ CkptIdle /\ ToolsIdle
SpecInfer == InitInfer /\ [][InfNext]_vars

\* all-to-all-v called on NRanks ranks.
InitA2A == A2AInit /\ FitIdle /\ InfIdle /\ CollIdle /\ TopKIdle /\ IOIdle /\ CkptIdle /\ ToolsIdle
SpecA2A == InitA2A /\ [][A2ANext]_vars

\* the same, every rank being a process that keeps running: a rank that can
\* take its next step eventually takes it.
SpecA2ALive == SpecA2A /\ \A r \in Ranks : WF_vars(A2ARank(r))

\* one communication primitive of data/utils.py called on every rank of a
\* process group: all-to-all-v, alltoall_cpu or all_reduce_sum.
InitComm ==
    /\ FitIdle /\ InfIdle /\ TopKIdle /\ IOIdle /\ CkptIdle /\ ToolsIdle
    /\ \/ A2AInit /\ CollIdle
       \/ A2AIdle /\ CollInit
CommNext == A2ANext \/ CollNext
SpecComm == InitComm /\ [][CommNext]_vars

\* a stream of checkpoint saves.
InitTopK == TopKInit /\ FitIdle /\ InfIdle /\ A2AIdle /\ CollIdle /\ IOIdle /\ CkptIdle /\ ToolsIdle
SpecTopK == InitTopK /\ [][TopKNext]_vars

\* calls of the persistence functions on one directory, in any order.
InitPersist ==
    IOInit /\ FitIdle /\ InfIdle /\ A2AIdle /\ CollIdle /\ TopKIdle /\ CkptIdle /\ ToolsIdle
SpecPersist == InitPersist /\ [][IONext]_vars

\* the checkpoint saves and reloads of one run.
InitCkpt ==
    CkptInit /\ FitIdle /\ InfIdle /\ A2AIdle /\ CollIdle /\ TopKIdle /\ IOIdle /\ ToolsIdle
SpecCkpt == InitCkpt /\ [][CkptNext]_vars

\* The subsystems of the orchestration layer at their idle values.
CoreIdle == FitIdle /\ InfIdle /\ A2AIdle /\ CollIdle /\ TopKIdle /\ IOIdle /\ CkptIdle

\* a stream of get_id calls on a dict that starts empty.
InitIds == IdInit /\ CoreIdle /\ SplitIdle /\ ProcIdle
SpecIds == InitIds /\ [][IdNext]_vars

\* one call of generated_train_valid_test_splits.
InitSplits == SplitInit /\ CoreIdle /\ IdIdle /\ ProcIdle
SpecSplits == InitSplits /\ [][SplitNext]_vars

\* one call of process_node_data or process_edge_data and its workers.
InitWorkers == ProcInit /\ CoreIdle /\ IdIdle /\ SplitIdle
SpecWorkers == InitWorkers /\ [][ProcNext]_vars

(***************************************************************************)
(* The claims about fit (specification Spec).                              *)
(***************************************************************************)

\* C1: once do_early_stop has returned True on a rank, that rank trains on
\* no further mini-batch (no batch is fetched, no optimizer step is taken) and
\* starts no later epoch.
C1_NoTrainingAfterEarlyStop ==
    [][\A r \in Ranks :
          stop_seen[r] =>
             /\ trained'[r] = trained[r]
             /\ total_steps'[r] = total_steps[r]
             /\ epoch'[r] = epoch[r]
             /\ pc'[r] # "batch"]_vars

\* Witness of C1: a rank has returned from fit after an early stop that came
\* in the middle of an epoch, with mini-batches and epochs left over.
C1_Witness ==
    \E r \in Ranks :
       /\ pc[r] = "done"
       /\ stop_seen[r]
       /\ i[r] + 1 < args.loader_len[r]
       /\ epoch[r] + 1 < args.n_epochs

\* The control states of the state machine INIT -> (EPOCH_START -> STEP* ->
\* EPOCH_EVAL? -> EPOCH_END)* -> DONE.
FitMachineStates ==
    {"check",                                          \* INIT
     "epoch_head", "batch",                            \* EPOCH_START
     "mid_eval", "mid_save", "mid_break",              \* STEP
     "barrier1", "wait1", "epoch_eval",                \* EPOCH_EVAL
     "epoch_save", "barrier2", "wait2", "epoch_break", \* EPOCH_END
     "finish", "done"}                                 \* DONE

\* C2: every execution of fit is a run of the state machine INIT ->
\* (EPOCH_START -> STEP* -> EPOCH_EVAL? -> EPOCH_END)* -> DONE: a rank is
\* always in one of the machine's states and leaves it only at DONE, or where
\* one of the two documented assertions (lines 55 and 85) aborts fit.
C2_FitRunsToDone ==
    \A r \in Ranks : pc[r] \in FitMachineStates \cup {"assert_failed"}

\* C3: no rank executes a training step of epoch e+1 before every rank has
\* finished the epoch-end evaluation and the epoch-end save of epoch e.
C3_EpochBarrier ==
    \A r \in Ranks, q \in Ranks :
       (\/ pc[r] \in {"mid_eval", "mid_save", "mid_break", "type_error"}
        \/ (pc[r] = "batch" /\ i[r] > 0))
       => (epoch_evals[q] >= epoch[r] /\ epoch_saves[q] >= epoch[r])

\* Witness of C3: a rank has taken the first training step of epoch 1 while
\* another rank has not yet left the second barrier of epoch 0.
C3_Witness ==
    \E r \in Ranks, q \in Ranks :
       /\ pc[r] = "mid_eval" /\ epoch[r] = 1 /\ i[r] = 0
       /\ pc[q] = "wait2" /\ epoch[q] = 0

\* C16: a fit called with an evaluator and without a validation loader fails
\* the assertion of line 55 before training starts: no rank fetches a
\* mini-batch, runs a model or optimizer operation, calls the evaluator, saves
\* a checkpoint or calls a barrier.
C16_ConfigAssertBeforeTraining ==
    (args.has_evaluator /\ ~args.has_val_loader) =>
       \A r \in Ranks :
          /\ pc[r] \in {"check", "assert_failed"}
          /\ total_steps[r] = 0 /\ trained[r] = 0 /\ ops[r] = <<>>
          /\ calls[r] = <<>> /\ do_eval_calls[r] = [mid |-> 0, end |-> 0]
          /\ val_score[r] = NoneVal
          /\ mid_saves[r] = 0 /\ epoch_saves[r] = 0 /\ last_save[r] = NoSave
          /\ arrived[r] = 0

\* Witness of C16: a rank has failed the configuration check of a fit that had
\* epochs and mini-batches to train on.
C16_Witness ==
    \E r \in Ranks :
       /\ pc[r] = "assert_failed"
       /\ args.has_evaluator /\ ~args.has_val_loader
       /\ args.n_epochs > 0 /\ args.loader_len[r] > 0

\* C17: a rank that fetches a mini-batch whose batch graph does not have
\* exactly one edge type stops at the assertion of that step: none of the
\* forward, backward and optimizer operations of that batch has run (all
\* earlier batches had their optimizer step, this one has not), and the rank
\* does nothing afterwards: no retry, no further batch.
C17_MultiEtypeBatchAborts ==
    [][\A r \in Ranks :
          (pc'[r] = "assert_failed" /\ total_steps'[r] > 0) =>
             /\ pc[r] \in {"batch", "assert_failed"}
             /\ ops'[r] = <<>>
             /\ trained'[r] = total_steps'[r] - 1
             /\ pc[r] = "assert_failed" =>
                   /\ total_steps'[r] = total_steps[r]
                   /\ trained'[r] = trained[r]]_vars

\* Witness of C17: a rank has stopped at the assertion on its second batch,
\* after a complete first step, with an epoch left to train.
C17_Witness ==
    \E r \in Ranks :
       /\ pc[r] = "assert_failed"
       /\ total_steps[r] = 2 /\ trained[r] = 1
       /\ epoch[r] + 1 < args.n_epochs

\* The operation a comes before the operation b in s, each occurring once.
Before(a, b, s) ==
    /\ Count(a, s) = 1 /\ Count(b, s) = 1
    /\ \E m \in 1 .. Len(s), n \in 1 .. Len(s) : m < n /\ s[m] = a /\ s[n] = b

\* C18 as stated: in every training step the order is forward, backward,
\* optimizer step, then zeroing of the gradients.
C18_ZeroGradAfterStep ==
    \A r \in Ranks :
       ops[r] # <<>> =>
          /\ Before("forward", "backward", ops[r])
          /\ Before("backward", "step", ops[r])
          /\ Before("step", "zero_grad", ops[r])

\* C18 as amended: in every training step the order is forward, zeroing of the
\* gradients, backward, optimizer step.
C18_ZeroGradBeforeBackward ==
    \A r \in Ranks :
       ops[r] # <<>> =>
          /\ Len(ops[r]) = 4
          /\ Before("forward", "zero_grad", ops[r])
          /\ Before("zero_grad", "backward", ops[r])
          /\ Before("backward", "step", ops[r])

\* Witness of C18: a rank has run a training step and is at its check point.
C18_Witness ==
    \E r \in Ranks : pc[r] = "mid_eval" /\ ops[r] # <<>> /\ trained[r] = 2

\* The control states after the mid-epoch check point of a step, and after the
\* epoch-end check point of an epoch.
AfterMidCheck == {"mid_save", "mid_break", "type_error"}
AfterEndCheck == {"epoch_save", "barrier2", "wait2", "epoch_break"}

\* The number of epochs of rank r whose step loop and first barrier are over
\* and whose epoch-end check point has been passed.
EpochsChecked(r) ==
    IF pc[r] \in AfterEndCheck THEN epoch[r] + 1
    ELSE IF pc[r] \in {"finish", "done"} /\ early_stop[r] THEN epoch[r] + 1
    ELSE epoch[r]

\* The calls named fn among the calls of the latest check point of rank r.
CallsOf(r, fn) == {n \in 1 .. Len(calls[r]) : calls[r][n].fn = fn}

\* C19: with an evaluator set, do_eval has been called once per training step
\* with epoch_end=False and once per finished epoch with epoch_end=True; the
\* call of the latest check point came first, with the current total_steps;
\* when it returned True (a validation score exists) the validation and the
\* test predictions were each computed once and evaluator.evaluate was called
\* once, after them, with total_steps; when it returned False none of them was.
C19_DoEvalOncePerCheckPoint ==
    args.has_evaluator =>
       \A r \in Ranks :
          /\ do_eval_calls[r].mid =
                trained[r] - (IF pc[r] = "mid_eval" THEN 1 ELSE 0)
          /\ do_eval_calls[r].end = EpochsChecked(r)
          /\ pc[r] \in AfterMidCheck \cup AfterEndCheck =>
                /\ CallsOf(r, "do_eval") = {1}
                /\ calls[r][1] =
                      Call("do_eval", total_steps[r], pc[r] \in AfterEndCheck)
                /\ IF val_score[r] # NoneVal
                   THEN /\ Cardinality(CallsOf(r, "predict(val_loader)")) = 1
                        /\ Cardinality(CallsOf(r, "predict(test_loader)")) = 1
                        /\ Cardinality(CallsOf(r, "evaluate")) = 1
                        /\ \A n \in CallsOf(r, "evaluate") :
                              /\ calls[r][n].arg = total_steps[r]
                              /\ \A m \in CallsOf(r, "predict(val_loader)")
                                         \cup CallsOf(r, "predict(test_loader)") :
                                    m < n
                   ELSE calls[r] = <<calls[r][1]>>

\* Witness of C19: a rank is past the epoch-end evaluation of its second
\* epoch, done by full-graph inference, after two training steps.
C19_Witness ==
    \E r \in Ranks :
       /\ args.has_evaluator /\ ~args.mini_batch_infer
       /\ pc[r] = "epoch_break" /\ epoch[r] = 1
       /\ val_score[r] # NoneVal
       /\ trained[r] = 2

\* C20: do_early_stop is called once after each evaluation, as the last call
\* of the check point and with the validation score of that evaluation; it is
\* not called at a check point where do_eval returned False, and without an
\* evaluator no evaluator call is made at all; the early-stop flag, once set,
\* is never cleared.
C20_EarlyStopOncePerEvaluation ==
    /\ [](\A r \in Ranks :
             /\ ~args.has_evaluator => calls[r] = <<>>
             /\ pc[r] \in AfterMidCheck \cup AfterEndCheck =>
                   IF val_score[r] # NoneVal
                   THEN /\ CallsOf(r, "do_early_stop") = {Len(calls[r])}
                        /\ CallsOf(r, "evaluate") = {Len(calls[r]) - 1}
                        /\ calls[r][Len(calls[r])].arg = val_score[r]
                   ELSE CallsOf(r, "do_early_stop") = {})
    /\ [][\A r \in Ranks : early_stop[r] => early_stop'[r]]_vars

\* Witness of C20: a rank goes on training after a mid-epoch evaluation whose
\* score did not stop it, the flag set by an earlier evaluation or not.
C20_Witness ==
    \E r \in Ranks, q \in Ranks :
       /\ pc[r] = "mid_break" /\ val_score[r] = MaxScore /\ ~early_stop[r]
       /\ pc[q] = "epoch_break" /\ val_score[q] = NoneVal /\ early_stop[q]

(***************************************************************************)
(* The claims about dist_inference (specification SpecInfer).              *)
(***************************************************************************)
LayerIds == 0 .. (NLayers - 1)

\* C4: a rank that has gathered input rows for layer k+1 (it has processed a
\* mini-batch of that layer) does so after every rank has finished its
\* layer-k loop; every rank makes exactly one barrier call per layer, so every
\* row a layer writes is computed from complete rows of the layer before.
C4_LayerBarrier ==
    /\ \A r \in Ranks :
          inf_arrived[r] = layer_i[r] + (IF inf_pc[r] = "wait" THEN 1 ELSE 0)
    /\ \A r \in Ranks, q \in Ranks :
          (inf_pc[r] \in {"loop", "wait"} /\ layer_i[r] >= 1 /\ iter_l[r] > 0)
          => inf_arrived[q] >= layer_i[r]
    /\ \A k \in LayerIds :
          dist_tensors[k].exists =>
             \A n \in AllNodes : dist_tensors[k].data[n] \in {0, k + 1}

\* Witness of C4: a rank is past a mini-batch of layer 1 although another rank
\* owns no node and so had no mini-batch at all.
C4_Witness ==
    \E r \in Ranks, q \in Ranks :
       /\ inf_pc[r] = "loop" /\ layer_i[r] = 1 /\ iter_l[r] > 0
       /\ node_split(q) = {}

\* C5: in each layer pass no row is written twice or by two ranks, and once
\* every rank has finished the layer every row has been written exactly once.
C5_EveryNodeOncePerLayer ==
    \A k \in LayerIds :
       dist_tensors[k].exists =>
          /\ \A n \in AllNodes :
                /\ dist_tensors[k].nwrites[n] <= 1
                /\ Cardinality(dist_tensors[k].writers[n]) <= 1
          /\ (\A r \in Ranks : inf_arrived[r] > k) =>
                \A n \in AllNodes : dist_tensors[k].nwrites[n] = 1

\* Witness of C5: all ranks have finished the last layer on a graph with two
\* node types of which every rank owns a share.
C5_Witness ==
    /\ \A r \in Ranks : inf_arrived[r] = NLayers /\ node_split(r) # {}
    /\ Cardinality(inf.ntypes) = 2

\* C6: every rank allocates, for every layer, one tensor per node type of the
\* graph with num_nodes rows and h_dims columns, out_dims for the last layer;
\* the returned dict is the last layer's, one tensor per node type.
C6_OutputShapes ==
    \A r \in Ranks :
       /\ \A k \in 1 .. Len(y_shape[r]) :
             /\ DOMAIN y_shape[r][k] = inf.ntypes
             /\ \A t \in inf.ntypes :
                   y_shape[r][k][t] =
                      <<inf.num_nodes[t],
                        IF k = NLayers THEN inf.out_dims ELSE inf.h_dims>>
             /\ dist_tensors[k - 1].shape = y_shape[r][k]
       /\ inf_pc[r] = "done" =>
             /\ Len(y_shape[r]) = NLayers
             /\ ret[r].layer = NLayers - 1
             /\ ret[r].keys = inf.ntypes

\* Witness of C6: a rank has returned, on a graph whose two node types have
\* different node counts and with h_dims different from out_dims.
C6_Witness ==
    \E r \in Ranks :
       /\ inf_pc[r] = "done"
       /\ inf.h_dims # inf.out_dims
       /\ \E t \in inf.ntypes, u \in inf.ntypes : inf.num_nodes[t] # inf.num_nodes[u]

\* C7: when dist_inference returns on a rank, every row of the last layer's
\* tensors has been written by its owner with a value that went through all
\* layers, and every rank reads the same values from the returned tensors.
C7_ReturnedTensorsComplete ==
    \A r \in Ranks :
       inf_pc[r] = "done" =>
          /\ \A n \in AllNodes :
                /\ dist_tensors[NLayers - 1].writers[n] = {inf.owner[n]}
                /\ ret[r].data[n] = NLayers
          /\ \A q \in Ranks : inf_pc[q] = "done" => ret[q].data = ret[r].data

\* Witness of C7: a rank has returned while another rank has passed the last
\* barrier but not yet returned, on a graph with two node types.
C7_Witness ==
    \E r \in Ranks, q \in Ranks :
       /\ inf_pc[r] = "done"
       /\ inf_pc[q] = "layer_head"
       /\ Cardinality(inf.ntypes) = 2
       /\ node_split(r) # {} /\ node_split(q) # {}

(***************************************************************************)
(* The claims about top-k retention (specification SpecTopK).              *)
(***************************************************************************)
SeenSet == {seen[n] : n \in 1 .. Len(seen)}

\* The k best of a set of checkpoints: the subset of min(k, |S|) checkpoints
\* each of which has a higher score than every checkpoint left out, or the
\* same score and a later step.
IsTopK(T, S, k) ==
    /\ T \subseteq S
    /\ Cardinality(T) = (IF Cardinality(S) < k THEN Cardinality(S) ELSE k)
    /\ \A a \in S \ T, b \in T : RanksBelow(a, b)

\* C8: after any stream of checkpoint saves the retained set is the set of
\* the K highest-scored checkpoints seen so far, ties going to the most recent.
C8_RetainedIsTopK == IsTopK(retained, SeenSet, topk_model_to_save)

\* Witness of C8: more than K saves were made, a retained checkpoint and a
\* dropped one have the same score, and a checkpoint older than a dropped one
\* is retained.
C8_Witness ==
    /\ Len(seen) > topk_model_to_save
    /\ \E a \in SeenSet \ retained, b \in retained : a.score = b.score
    /\ \E a \in SeenSet \ retained, b \in retained : b.step < a.step

\* C9: when the retained set holds K checkpoints, saving one whose score is
\* lower than that of every retained checkpoint leaves the set unchanged.
C9_WorseSaveChangesNothing ==
    [][(/\ seen' # seen
        /\ Cardinality(retained) = topk_model_to_save
        /\ \A c \in retained : seen'[Len(seen')].score < c.score)
       => retained' = retained]_vars

\* Witness of C9: the latest save came with a score below every retained one
\* and is not retained, the set holding K older checkpoints.
C9_Witness ==
    /\ Len(seen) > topk_model_to_save
    /\ Cardinality(retained) = topk_model_to_save
    /\ seen[Len(seen)] \notin retained
    /\ \A c \in retained : seen[Len(seen)].score < c.score

(***************************************************************************)
(* The claims about all-to-all-v (specification SpecA2A).                  *)
(***************************************************************************)

\* The call is balanced: every rank passes the size of the process group as
\* world_size and every receive buffer has the shape of the tensor sent to it.
Matching ==
    /\ a2a.mismatched = {}
    /\ \A r \in World : a2a.world_size[r] = Cardinality(World)

\* C10: when all-to-all-v has completed on all ranks (the call balanced),
\* output_tensor_list[i] on rank j holds the values of the
\* input_tensor_list[j] rank i passed in, for all i and j.
C10_AllToAllDelivers ==
    (Matching /\ \A r \in World : a2a_pc[r] = "done") =>
       \A i_ \in World, j \in World :
          output_tensor_list[j][i_].val = a2a.input_tensor_list[i_][j].val

\* Witness of C10: the gloo variant has completed on all ranks, with inputs
\* that were on the GPU.
C10_Witness ==
    /\ \A r \in World : a2a_pc[r] = "done"
    /\ Cardinality(World) = NRanks
    /\ Matching
    /\ a2a.backend = "cpu"
    /\ a2a.input_tensor_list[0][0].device = "cuda"

\* The ranks below n other than r, in increasing order.
OthersBelow(r, n) ==
    [k \in 1 .. (IF r < n THEN n - 1 ELSE n) |-> IF k - 1 < r THEN k - 1 ELSE k]

\* C12: in a balanced call every rank issues its sends to the other ranks,
\* then completes its receives from the other ranks in increasing rank order,
\* then calls the barrier once; and the call returns on every rank.
C12_AllToAllVTerminates ==
    /\ [](Matching =>
            \A r \in World :
               /\ senders[r] =
                     OthersBelow(r, IF a2a_pc[r] = "send" THEN a2a_i[r]
                                    ELSE Cardinality(World))
               /\ recvs[r] =
                     OthersBelow(r, IF a2a_pc[r] = "send" THEN 0
                                    ELSE IF a2a_pc[r] = "recv" THEN a2a_i[r]
                                    ELSE Cardinality(World))
               /\ a2a_arrived[r] = (IF a2a_pc[r] \in {"wait", "done"} THEN 1 ELSE 0))
    /\ (Matching ~> \A r \in World : a2a_pc[r] = "done")

\* Witness of C12: in a balanced call on all ranks one rank has returned while
\* another one is still in the barrier.
C12_Witness ==
    /\ Matching /\ Cardinality(World) = NRanks
    /\ \E r \in World, q \in World : a2a_pc[r] = "done" /\ a2a_pc[q] = "wait"

\* Rank r posts a receive that nothing completes: from a peer whose tensor
\* does not fit r's buffer, or from a peer whose send loop stops before r.
Starved(r) ==
    \E src \in World \ {r} :
       /\ src < a2a.world_size[r]
       /\ (<<src, r>> \in a2a.mismatched \/ a2a.world_size[src] <= r)

C13_NoSendCase ==
    \E r \in World, src \in World :
       /\ a2a.mismatched = {} /\ Starved(r)
       /\ a2a_pc[r] = "recv" /\ a2a_i[r] = src
       /\ in_flight[<<src, r>>] = <<>>
       /\ a2a_pc[src] = "wait"

\* C14: a rank that passes the group size W as world_size hands exactly W-1
\* tensors to isend, one per other rank, and completes exactly W-1 receives,
\* one per other rank; it never sends to or receives from itself, and its own
\* output entry is its own input entry (moved to the backend's device).
C14_NoSelfMessage ==
    \A r \in World :
       /\ in_flight[<<r, r>>] = <<>>
       /\ \A n \in 1 .. Len(senders[r]) : senders[r][n] # r
       /\ \A n \in 1 .. Len(recvs[r]) : recvs[r][n] # r
       /\ (a2a.world_size[r] = Cardinality(World) /\ a2a_pc[r] # "send") =>
             /\ Len(senders[r]) = Cardinality(World) - 1
             /\ {senders[r][n] : n \in 1 .. Len(senders[r])} = World \ {r}
             /\ output_tensor_list[r][r] = ToBackendDevice(a2a.input_tensor_list[r][r])
       /\ (a2a.world_size[r] = Cardinality(World) /\ a2a_pc[r] \in {"wait", "done"}) =>
             /\ Len(recvs[r]) = Cardinality(World) - 1
             /\ {recvs[r][n] : n \in 1 .. Len(recvs[r])} = World \ {r}

\* Witness of C14: the nccl variant has completed on all ranks of a balanced
\* call, the inputs on the GPU.
C14_Witness ==
    /\ Matching /\ Cardinality(World) = NRanks
    /\ a2a.backend = "nccl" /\ a2a.input_tensor_list[0][0].device = "cuda"
    /\ \A r \in World : a2a_pc[r] = "done" /\ output_tensor_list[r][r].device = "cuda"

(***************************************************************************)
(* The claims about alltoall_cpu and all_reduce_sum (specification         *)
(* SpecComm).                                                              *)
(***************************************************************************)

\* C11: on every rank the scatter calls of alltoall_cpu are, in this order,
\* one with src = 0, one with src = 1, ..., one with src = W-1, rank i being
\* the one rank that supplies a list in round i; once it has returned on all
\* ranks, output_tensor_list[i] on rank j holds the values of the
\* input_tensor_list[j] of rank i, for all i and j.
C11_ScatterPerSourceRank ==
    /\ \A r \in CollWorld :
          /\ scatter_calls[r] =
                [k \in 1 .. scatter_i[r] |-> [src |-> k - 1, supplies |-> (k - 1 = r)]]
          /\ (coll.fn = "alltoall_cpu" /\ coll_pc[r] = "done") =>
                Len(scatter_calls[r]) = Cardinality(CollWorld)
    /\ (coll_pc # <<>> /\ coll.fn = "alltoall_cpu"
          /\ \A r \in CollWorld : coll_pc[r] = "done") =>
          \A i_ \in CollWorld, j \in CollWorld :
             scatter_out[j][i_].val = coll.input_tensor_list[i_][j].val

\* Witness of C11: alltoall_cpu has returned on every rank of a group of
\* NRanks ranks, with inputs that were on the GPU.
C11_Witness ==
    /\ Cardinality(CollWorld) = NRanks
    /\ coll.fn = "alltoall_cpu"
    /\ coll.input_tensor_list[0][0].device = "cuda"
    /\ \A r \in CollWorld : coll_pc[r] = "done"

\* C15: in a process group of one rank, all-to-all-v issues no send and no
\* receive and returns with output_tensor_list[0] holding the values of
\* input_tensor_list[0]; all_reduce_sum returns with the tensor holding the
\* value it was called with.
C15_SingleRankIsIdentity ==
    /\ Cardinality(World) = 1 =>
          /\ senders[0] = <<>> /\ recvs[0] = <<>>
          /\ in_flight[<<0, 0>>] = <<>>
          /\ a2a_pc[0] \in {"wait", "done"} =>
                output_tensor_list[0][0].val = a2a.input_tensor_list[0][0].val
    /\ (Cardinality(CollWorld) = 1 /\ coll.fn = "all_reduce_sum") =>
          /\ tensor[0] = coll.tensor[0]
          /\ reduce_in \subseteq {<<0, coll.tensor[0]>>}

\* Witness of C15: all-to-all-v (gloo variant, input on the GPU) has returned
\* on the one rank of its group.
C15_Witness ==
    /\ Cardinality(World) = 1
    /\ a2a_pc[0] = "done"
    /\ a2a.backend = "cpu" /\ a2a.input_tensor_list[0][0].device = "cuda"

\* The second case of C15: all_reduce_sum has returned on the one rank of its
\* group, called with a non-zero tensor.
C15_ReduceCase ==
    /\ Cardinality(CollWorld) = 1
    /\ coll.fn = "all_reduce_sum" /\ coll.tensor[0] = MaxTensor
    /\ coll_pc[0] = "done"

(***************************************************************************)
(* The claims about the checkpoint saves, the progress lines and the       *)
(* metric logging of fit (specifications Spec and SpecLong).               *)
(***************************************************************************)

\* Rank r has just passed the save check of line 126 and a mid-epoch save was
\* made for the mini-batch it has just trained.
SavedThisStep(r) ==
    /\ last_save[r].epoch = epoch[r]
    /\ last_save[r].iter = i[r]

\* C21: with save_model_per_iters = N > 0, right after the n-th mini-batch of
\* an epoch has been trained (n = i + 1, i the index of enumerate), a
\* mid-epoch save is made exactly when n is a multiple of N, so that the k-th
\* save of the epoch comes right after the (k*N)-th mini-batch.
C21_SaveEveryNSteps ==
    \A r \in Ranks :
       (pc[r] = "mid_break" /\ args.save_model_per_iters > 0) =>
          (SavedThisStep(r) <=> (i[r] + 1) % args.save_model_per_iters = 0)

\* C22: when fit is called with save_model_per_iters = None, no step fails at
\* the save check, no mid-epoch save is attempted and one save has been made
\* for each epoch that ended.
C22_DefaultNoneTrains ==
    args.save_model_per_iters = NoneVal =>
       \A r \in Ranks :
          /\ pc[r] # "type_error"
          /\ mid_saves[r] = 0
          /\ epoch_saves[r] = EpochsChecked(r) - (IF pc[r] = "epoch_save" THEN 1 ELSE 0)

\* C23: one epoch-end call of save_topk_models has been made for every epoch
\* that ran to its end; the call is made with that epoch's number and with
\* iteration = None, whatever the number of steps; a mid-epoch call is made
\* with an iteration that is not None.
C23_EpochEndSaveHasNoIteration ==
    /\ [](\A r \in Ranks :
             epoch_saves[r] =
                EpochsChecked(r) - (IF pc[r] = "epoch_save" THEN 1 ELSE 0))
    /\ [][\A r \in Ranks :
             /\ epoch_saves'[r] # epoch_saves[r] =>
                   /\ epoch_saves'[r] = epoch_saves[r] + 1
                   /\ last_save'[r].epoch = epoch[r]
                   /\ last_save'[r].iter = NoneVal
                   /\ mid_saves'[r] = mid_saves[r]
             /\ mid_saves'[r] # mid_saves[r] =>
                   /\ last_save'[r].epoch = epoch[r]
                   /\ last_save'[r].iter # NoneVal]_vars

\* Witness of C23: a rank has made the epoch-end save of its second epoch
\* after a mid-epoch save in that epoch.
C23_Witness ==
    \E r \in Ranks :
       /\ pc[r] = "barrier2" /\ epoch[r] = 1
       /\ mid_saves[r] > 0 /\ total_steps[r] > 2
       /\ last_save[r].iter = NoneVal /\ last_save[r].epoch = 1

\* C24: progress lines are printed by rank 0 only, and every progress line
\* but the first comes 20 training steps after the progress line before it.
C24_PrintEvery20Steps ==
    \A r \in Ranks :
       /\ r # 0 => prints[r].n = 0
       /\ prints[r].n > 1 => prints[r].step = prints[r].prev_step + PrintEvery

\* C24, amended: progress lines are printed by rank 0 only; rank 0 prints one
\* for each mini-batch whose index within its epoch is a multiple of 20 and
\* for no other, so that two consecutive progress lines of one epoch are 20
\* training steps apart.
C24_PrintEvery20BatchesOfEpoch ==
    \A r \in Ranks :
       /\ r # 0 => prints[r].n = 0
       /\ prints[r].n > 0 => prints[r].i % PrintEvery = 0
       /\ (r = 0 /\ pc[r] \in {"mid_eval", "mid_save", "mid_break"}) =>
             /\ prints[r].epoch = epoch[r]
             /\ prints[r].i = i[r] - (i[r] % PrintEvery)
       /\ (prints[r].n > 1 /\ prints[r].prev_epoch = prints[r].epoch) =>
             prints[r].step = prints[r].prev_step + PrintEvery

\* Witness of C24: rank 0 has printed its second progress line of an epoch,
\* rank 1 having trained as many mini-batches.
C24_Witness ==
    /\ prints[0].n > 1 /\ prints[0].prev_epoch = prints[0].epoch
    /\ prints[0].i = PrintEvery
    /\ trained[1] > PrintEvery

\* C25: on every rank the train loss has been logged once for each training
\* step, the latest time with step = total_steps; total_steps is 1 at the first
\* mini-batch, grows by exactly 1 with every mini-batch and is not reset when
\* an epoch starts, so every logged step is larger than the one logged before
\* (a mini-batch that fails the edge-type assertion of line 85 is counted by
\* total_steps and aborts fit before anything is logged).
C25_TrainLossLoggedEveryStep ==
    /\ [](\A r \in Ranks :
             /\ logged[r].n = trained[r]
             /\ logged[r].n > 0 => logged[r].step = logged[r].n
             /\ pc[r] # "assert_failed" => total_steps[r] = logged[r].n)
    /\ [][\A r \in Ranks :
             /\ total_steps'[r] \in {total_steps[r], total_steps[r] + 1}
             /\ logged'[r] # logged[r] =>
                   /\ logged'[r].n = logged[r].n + 1
                   /\ logged'[r].step > logged[r].step
                   /\ logged'[r].step = total_steps'[r]
                   /\ total_steps'[r] = total_steps[r] + 1]_vars

\* Witness of C25: a rank has logged the first step of its second epoch, the
\* first epoch having had more than one step.
C25_Witness ==
    \E r \in Ranks :
       /\ epoch[r] = 1 /\ i[r] = 0 /\ pc[r] = "mid_eval"
       /\ logged[r].n > 2 /\ logged[r].step = logged[r].n

(***************************************************************************)
(* The claims about the task tracker and the writes of dist_inference      *)
(* (specification SpecInfer).                                              *)
(***************************************************************************)

\* Arguments the hooks of the tracker are called with.
HookArgs == {NoneVal, 0, 1}

\* C26: keep_alive and the four timing hooks of the base class return for any
\* argument and leave the tracker as it was; dist_inference calls keep_alive
\* once per inference mini-batch, with the index of the mini-batch, when a
\* tracker is passed, and makes no tracker call when task_tracker is None.
C26_TrackerHooksAreNoOps ==
    /\ [](\A r \in Ranks :
             /\ \A a \in HookArgs :
                   /\ keep_alive(tracker[r], a) = tracker[r]
                   /\ log_mean_forward_time(tracker[r], a) = tracker[r]
                   /\ log_mean_backward_time(tracker[r], a) = tracker[r]
                   /\ log_train_time(tracker[r], a) = tracker[r]
                   /\ log_valid_time(tracker[r], a) = tracker[r]
             /\ ~task_tracker => keep_alive_calls[r].n = 0)
    /\ [][\A r \in Ranks :
             /\ tracker'[r] = tracker[r]
             /\ IF task_tracker /\ iter_l'[r] = iter_l[r] + 1
                THEN keep_alive_calls'[r] =
                        [n |-> keep_alive_calls[r].n + 1, report_step |-> iter_l[r]]
                ELSE keep_alive_calls'[r] = keep_alive_calls[r]]_vars

\* Witness of C26: dist_inference has returned on a rank that was passed a
\* tracker and called keep_alive in both layers, twice in the last one.
C26_Witness ==
    \E r \in Ranks :
       /\ task_tracker /\ inf_pc[r] = "done"
       /\ keep_alive_calls[r].n > NLayers
       /\ keep_alive_calls[r].report_step = 1

\* The second case of C26: dist_inference has returned on a rank that was
\* passed no tracker, after two mini-batches in a layer.
C26_NoTrackerCase ==
    \E r \in Ranks :
       /\ ~task_tracker /\ inf_pc[r] = "done"
       /\ iter_l[r] = 2

\* C30: a mini-batch of rank r in layer k writes the rows of the batch's
\* output nodes in the tensors of layer k and nothing else: every other row
\* of layer k (rows of node types of h without output nodes included) and
\* every tensor of another layer are left as they were.
C30_MiniBatchWritesOnlyOutputRows ==
    [][\A r \in Ranks :
          iter_l'[r] = iter_l[r] + 1 =>
             LET k == layer_i[r]
                 B == infer_nodes[r] \ infer_nodes'[r]
             IN /\ B # {}
                /\ \A j \in LayerIds \ {k} : dist_tensors'[j] = dist_tensors[j]
                /\ \A n \in AllNodes :
                      IF n \in B
                      THEN /\ dist_tensors'[k].nwrites[n] = dist_tensors[k].nwrites[n] + 1
                           /\ r \in dist_tensors'[k].writers[n]
                      ELSE /\ dist_tensors'[k].data[n] = dist_tensors[k].data[n]
                           /\ dist_tensors'[k].nwrites[n] = dist_tensors[k].nwrites[n]
                           /\ dist_tensors'[k].writers[n] = dist_tensors[k].writers[n]]_vars

\* Witness of C30: in the second layer a rank has processed a mini-batch whose
\* layer output had a node type without output nodes; rows of the layer are
\* still unwritten and the tensor of the first layer is complete.
C30_Witness ==
    \E r \in Ranks :
       /\ inf_pc[r] = "loop" /\ layer_i[r] = 1 /\ iter_l[r] > 0
       /\ Cardinality(last_batch[r].h_keys) > 1
       /\ \E n \in AllNodes : n[1] \in last_batch[r].h_keys
                               /\ dist_tensors[1].nwrites[n] = 0
       /\ \E n \in AllNodes : dist_tensors[1].nwrites[n] = 1
       /\ \A n \in AllNodes : dist_tensors[0].nwrites[n] = 1

(***************************************************************************)
(* The claims about the raw-text and ID-map persistence (specification     *)
(* SpecPersist).                                                           *)
(***************************************************************************)

\* The lines of raw_text have no newline and no leading or trailing
\* whitespace.
CleanLines(raw_text) ==
    \A ntype \in DOMAIN raw_text :
       \A n \in 1 .. Len(raw_text[ntype]) :
          LET line == raw_text[ntype][n]
          IN \A k \in 1 .. Len(line) : line[k] \notin Whitespace

\* C28: after save_raw_text(path, dname, raw_text), a call of
\* load_raw_text(path, dname) returns a dict with the node types of raw_text,
\* each mapped to its list of lines in the same order, for lines without
\* newlines or leading or trailing whitespace.
C28_RawTextRoundTrip ==
    (io_result.fn = "load_raw_text" /\ io_saved.raw_text /\ CleanLines(io_args.raw_text)) =>
       /\ io_result.status = "ok"
       /\ io_result.value = io_args.raw_text

\* C29: save_maps(path, dname, map_data) succeeds, and a load_maps(path,
\* dname) that follows it returns a mapping equal to map_data.
C29_MapsRoundTrip ==
    /\ io_result.fn = "save_maps" => io_result.status = "ok"
    /\ (io_result.fn = "load_maps" /\ io_saved.maps) =>
          /\ io_result.status = "ok"
          /\ io_result.value = io_args.map_data

(***************************************************************************)
(* The claim about the checkpoint round trip (specification SpecCkpt).     *)
(***************************************************************************)

C31_RanksLeaveTogether ==
    \A r \in Ranks, q \in Ranks :
       ~ /\ pc[r] = "done" /\ early_stop[r]
         /\ ~stop_seen[q]
         /\ pc[q] \in {"wait1", "wait2"}
         /\ arrived[q] > arrived[r]

\* The number of barrier calls rank r has made if it calls the barrier twice
\* in every epoch: after the step loop and after the epoch-end save.
BarrierCallsDue(r) ==
    IF pc[r] \in {"wait1", "epoch_eval", "epoch_save", "barrier2"} THEN 2 * epoch[r] + 1
    ELSE IF pc[r] \in {"wait2", "epoch_break"} THEN 2 * epoch[r] + 2
    ELSE 2 * EpochsChecked(r)

\* fit has returned or raised on rank r.
FitEnded(r) == pc[r] \in {"done", "assert_failed", "type_error"}

C33_EndOfEpochRunsAfterMidStop ==
    \A r \in Ranks :
       early_stop[r] =>
          /\ pc[r] \notin {"batch", "mid_eval", "type_error", "assert_failed"}
          /\ pc[r] \in {"finish", "done"} =>
                /\ arrived[r] = 2 * (epoch[r] + 1)
                /\ epoch_evals[r] = epoch[r] + 1
                /\ epoch_saves[r] = epoch[r] + 1
                /\ last_save[r].epoch = epoch[r] /\ last_save[r].iter = NoneVal

\* C33 where save_model_per_iters is an integer.
C33_IntegerCase ==
    args.save_model_per_iters # NoneVal => C33_EndOfEpochRunsAfterMidStop

\* The validation score of the check point rank r has just passed: the score
\* its evaluation returned (the one handed to do_early_stop), None when no
\* evaluation ran there.
ScoreOfCheckPoint(r) ==
    IF CallsOf(r, "do_early_stop") # {} THEN calls[r][Len(calls[r])].arg ELSE NoneVal

\* C34: the validation score passed to save_topk_models is the score of the
\* evaluation made at the same check point (the same step for a mid-epoch
\* save, the same epoch end for an epoch-end save), or None when no
\* evaluation ran there; never a score of an earlier step or epoch.
C34_SaveScoreIsOfThisCheckPoint ==
    [][\A r \in Ranks :
          (mid_saves'[r] # mid_saves[r] \/ epoch_saves'[r] # epoch_saves[r]) =>
             /\ last_save'[r].score = ScoreOfCheckPoint(r)
             /\ calls[r] # <<>> =>
                   calls[r][1] = Call("do_eval", total_steps[r], pc[r] = "epoch_save")]_vars

\* Witness of C34: a rank has made an epoch-end save without a score, an
\* earlier evaluation of the epoch having returned a score and early stop.
C34_Witness ==
    \E r \in Ranks :
       /\ pc[r] = "barrier2" /\ early_stop[r] /\ trained[r] > 0
       /\ last_save[r].iter = NoneVal /\ last_save[r].score = NoneVal

\* The second case of C34: a mid-epoch save with the score of that step.
C34_ScoreCase ==
    \E r \in Ranks :
       /\ pc[r] = "mid_break" /\ SavedThisStep(r)
       /\ last_save[r].score = MaxScore

(***************************************************************************)
(* The sends of all-to-all-v at its return (specification SpecA2A).        *)
(***************************************************************************)

\* C35: when all-to-all-v has returned on a rank, every tensor this rank
\* handed to isend has been received by its destination, though the handles
\* in `senders` are never waited on: the rank passed the final barrier, and
\* that opens only after every rank has completed its receive loop.
C35_SendsReceivedAtReturn ==
    \A r \in World :
       a2a_pc[r] = "done" =>
          /\ \A q \in World : a2a_pc[q] \in {"wait", "done"}
          /\ \A dst \in World : in_flight[<<r, dst>>] = <<>>
          /\ \A n \in 1 .. Len(senders[r]) :
                \E k \in 1 .. Len(recvs[senders[r][n]]) : recvs[senders[r][n]][k] = r

\* Witness of C35: a rank of the full group has returned from the cpu variant
\* after sending a tensor to every other rank.
C35_Witness ==
    \E r \in World :
       /\ a2a_pc[r] = "done" /\ a2a.backend = "cpu"
       /\ Cardinality(World) = NRanks
       /\ Len(senders[r]) = NRanks - 1

(***************************************************************************)
(* Raw text and ID maps of one dataset (specification SpecPersist).        *)
(***************************************************************************)

\* C36: writing the ID maps does not disturb the raw text saved for the same
\* dataset: once save_raw_text(path, dname, t) was followed by
\* save_maps(path, dname, m), load_raw_text(path, dname) returns t (lines
\* without newlines or outer whitespace) and load_maps(path, dname) returns m.
C36_MapsLeaveRawText ==
    io_saved.maps_after_raw =>
       /\ (io_result.fn = "load_raw_text" /\ CleanLines(io_args.raw_text)) =>
             io_result = [fn |-> "load_raw_text"] @@ Returned(io_args.raw_text)
       /\ io_result.fn = "load_maps" =>
             io_result = [fn |-> "load_maps"] @@ Returned(io_args.map_data)

\* save_maps as it is leaves every file as it was, the pickled config of the
\* raw text included.
C36_SaveMapsWritesNothing == [][SaveMaps => files' = files]_vars

(***************************************************************************)
(* The claim about get_id (specification SpecIds).                         *)
(***************************************************************************)
\* The calls that were the first one for their key, in order.
FirstCalls(n) == {m \in 1 .. n : \A l \in 1 .. (m - 1) : id_calls[l].key # id_calls[m].key}

\* C37: starting from an empty dict, after any sequence of get_id calls the
\* dict maps the distinct keys seen so far one-to-one onto 0 .. n-1 in order
\* of first appearance; the id returned for a key is the same on every call,
\* and is_new is true exactly on the first call for a key.
C37_GetIdNumbersKeysInOrder ==
    /\ DOMAIN nid_dict = {id_calls[m].key : m \in 1 .. Len(id_calls)}
    /\ \A m \in 1 .. Len(id_calls) :
          /\ id_calls[m].is_new <=> m \in FirstCalls(Len(id_calls))
          /\ id_calls[m].nid = nid_dict[id_calls[m].key]
          /\ m \in FirstCalls(Len(id_calls)) =>
                nid_dict[id_calls[m].key] = Cardinality(FirstCalls(m - 1))
    /\ {nid_dict[k] : k \in DOMAIN nid_dict} = 0 .. (Cardinality(DOMAIN nid_dict) - 1)

\* Witness of C37: three keys have been numbered and the key that came first
\* has been asked for again after the others.
C37_Witness ==
    /\ Len(id_calls) = 4
    /\ Cardinality(DOMAIN nid_dict) = 3
    /\ id_calls[4].key = id_calls[1].key
    /\ id_calls[4].nid = 0 /\ ~id_calls[4].is_new

(***************************************************************************)
(* The claim about the train/validation/test splits (SpecSplits).          *)
(***************************************************************************)

\* C38: for every edge type, with train_pct + valid_pct + test_pct <= 1 and
\* for both values of use_non_selected_edges, the train, validation and test
\* edge ids are pairwise disjoint, the training graph mask is 0 on every
\* validation and test edge, and the validation graph mask is 0 on every
\* test edge.
C38_SplitsDisjoint ==
    \A k \in 1 .. Len(split_out) :
       LET o == split_out[k] IN
       /\ Elems(o.train_eids) \cap Elems(o.val_eids) = {}
       /\ Elems(o.train_eids) \cap Elems(o.test_eids) = {}
       /\ Elems(o.val_eids) \cap Elems(o.test_eids) = {}
       /\ \A e \in Elems(o.val_eids) \cup Elems(o.test_eids) : o.train_graph_mask[e] = 0
       /\ \A e \in Elems(o.test_eids) : o.val_graph_mask[e] = 0

\* Witness of C38: the call has returned for a graph of MaxEtypes edge types,
\* the last one split into non-empty train, validation and test sets, with
\* the masks built from the non-selected edges.
C38_Witness ==
    /\ split_pc = "done" /\ Len(split_out) = MaxEtypes
    /\ split_args.use_non_selected_edges
    /\ \A part \in {"train_eids", "val_eids", "test_eids"} :
          split_out[MaxEtypes][part] # <<>>

\* The second case of C38: the same with masks built from the selected edges.
C38_SelectedCase ==
    /\ split_pc = "done" /\ Len(split_out) = MaxEtypes
    /\ ~split_args.use_non_selected_edges
    /\ \A part \in {"train_eids", "val_eids", "test_eids"} :
          split_out[MaxEtypes][part] # <<>>

(***************************************************************************)
(* The claim about the worker processes (specification SpecWorkers).       *)
(***************************************************************************)

\* C39: with num_processes >= 1 the number of worker processes started and
\* not yet joined never exceeds num_processes, and when wait_all has
\* returned every worker started has been joined.
C39_WorkersBounded ==
    /\ Cardinality(NotJoined) <= proc_args.num_processes
    /\ (proc_pc \in {"conf", "done"} \/ (proc_pc = "files" /\ file_i = 0)) =>
          NotJoined = {}

\* Witness of C39: wait_all has returned for a process_conf with more files
\* than num_processes, num_processes workers having been alive together.
C39_Witness ==
    /\ proc_pc = "conf" /\ conf_i = 1
    /\ proc_args.num_processes = MaxProcs
    /\ Len(workers) = MaxFiles /\ Len(proc_q) = MaxProcs - 1
    /\ NotJoined = {}

\* The second case of C39: num_processes workers are started and not joined.
C39_FullCase ==
    /\ proc_pc = "wait_process"
    /\ Cardinality(NotJoined) = proc_args.num_processes
    /\ proc_args.num_processes = MaxProcs
    /\ \A p \in NotJoined : workers[p] = "running"
====
